---- MODULE Spec2Model ----
(***************************************************************************)
(* A model of the file-sync system (Simple_DropBox): the client's change   *)
(* detector and upload scheduler (Client/lib/file-watcher.js), the         *)
(* client's sync orchestrator (client/lib/sync.js), the client's Merkle    *)
(* tree (client/lib/merkle-tree.js) and the server's upload, delete, tree  *)
(* update and diff handlers (routes/files.js, routes/merkle.js).           *)
(*                                                                         *)
(* A file's bytes are a content c; its SHA-256 digest is Hash(c), an       *)
(* injective function.  A presigned URL is modelled by the id of the file  *)
(* record whose blob it points at (0: null).  Timestamps (new Date()) are  *)
(* readings of the device's clock `now`, which ticks at every reading.     *)
(*                                                                         *)
(* Every await on the network or on a timer is a step boundary: a queue    *)
(* drain and a sync cycle are sequences of steps that interleave with the  *)
(* watcher's handlers and with each other, as on Node's event loop.        *)
(***************************************************************************)
EXTENDS Integers, Sequences, FiniteSets, TLC

\* ------------------------------------------------------------------ bounds
\* Number of writes and deletions the user makes on one device.
MaxEdits == 2
\* Number of performSync cycles of one device the model lets run at once.
MaxCycles == 2
\* Number of failed requests and corrupted downloads in one behaviour.
MaxFaults == 1
\* Last reading of a device's clock.
MaxClock == 6
\* Number of edits of the second device in the two-device specification.
PeerEdits == 1
\* Number of readings of a device's clock in the two-device specification.
PeerClock == 3
\* Number of operations applied to the first tree of the tree specification.
MaxTreeOps == 3
\* Number of entries in a snapshot a tree is loaded from.
MaxSnapshot == 2
\* Last timestamp a snapshot entry or an upsert's metadata carries.
MaxStamp == 2

Devices == {"A", "B"}
Paths == {"p", "q"}
Contents == {"c1", "c2"}
NoFile == "nofile"
Null == "null"

\* crypto.createHash('sha256').update(buffer).digest('hex'); null for a file
\* that cannot be read.
calculateFileHash(c) ==
  CASE c = "c1" -> "h1"
    [] c = "c2" -> "h2"
    [] OTHER -> Null

\* ------------------------------------------------------- sequence helpers
Has(t, p) == \E i \in 1..Len(t) : t[i].path = p

IndexOf(t, p) == CHOOSE i \in 1..Len(t) : t[i].path = p

Remove(t, p) ==
  LET Keep(e) == e.path # p IN SelectSeq(t, Keep)

NoDupPaths(t) == \A i, j \in 1..Len(t) : t[i].path = t[j].path => i = j

Max(S) == CHOOSE x \in S : \A y \in S : y <= x

Min(S) == CHOOSE x \in S : \A y \in S : x <= y

\* ---------------------------------------------------- client Merkle tree
\* A tree is the sequence of its leaf nodes in the insertion order of the
\* `leaves` Map.  A leaf is [path, hash, s3, ts, node]: the file entry it
\* wraps (node.data) and `node`, the value of the leaf node's own hash field.
\* A node hash is a sequence of tokens, so that the digest of two
\* concatenated child hashes is a value that determines both children.

\* crypto.createHash('sha256').update('empty').digest('hex'): the digest of
\* the five bytes "empty", as a content hash.
SHA256Empty == "h0"

\* MerkleNode.calculateHash of a node with data and no children, called by
\* the constructor: isLeaf is assigned after the call, so the first branch is
\* not taken and the digest of 'empty' results.
constructedLeafHash(data) == <<SHA256Empty>>

\* MerkleNode.recalculateHash of a leaf: isLeaf is set, the hash is data.hash.
recalculatedLeafHash(data) == <<data.hash>>

\* MerkleNode.calculateHash of an internal node: the digest of the two
\* children's hashes concatenated, or the single child's hash.
combinedHash(l, r) == <<"(">> \o l \o r \o <<")">>

\* MerkleTree.getFile
getFile(t, p) == t[IndexOf(t, p)]

\* MerkleTree.createFileNode: a new MerkleNode for the entry; Map.set keeps an
\* existing key's place.
createFileNode(t, p, h, s3, ts) ==
  LET data == [path |-> p, hash |-> h, s3 |-> s3, ts |-> ts]
      leaf == [path |-> p, hash |-> h, s3 |-> s3, ts |-> ts,
               node |-> constructedLeafHash(data)]
  IN IF Has(t, p) THEN [t EXCEPT ![IndexOf(t, p)] = leaf] ELSE Append(t, leaf)

\* MerkleTree.addOrUpdateFile: an existing leaf keeps its place, takes the
\* metadata's hash and s3_url and a fresh timestamp, and recalculates its
\* hash; a new leaf is created and appended.
addOrUpdateFile(t, p, h, s3, ts) ==
  IF Has(t, p)
  THEN LET data == [path |-> p, hash |-> h, s3 |-> s3, ts |-> ts]
       IN [t EXCEPT ![IndexOf(t, p)] =
             [path |-> p, hash |-> h, s3 |-> s3, ts |-> ts,
              node |-> recalculatedLeafHash(data)]]
  ELSE createFileNode(t, p, h, s3, ts)

\* MerkleTree.updateS3Url: sets the URL and a fresh timestamp on an existing
\* leaf and recalculates its hash; a path that is not tracked is left alone.
updateS3Url(t, p, s3, ts) ==
  IF Has(t, p)
  THEN [t EXCEPT ![IndexOf(t, p)].s3 = s3, ![IndexOf(t, p)].ts = ts,
                 ![IndexOf(t, p)].node = recalculatedLeafHash(t[IndexOf(t, p)])]
  ELSE t

\* MerkleTree.removeFile
removeFile(t, p) == Remove(t, p)

\* One pass of rebuildTree's loop: the nodes of a level are paired from the
\* left; a last node without a partner gets a parent of its own.
RECURSIVE nextLevel(_)
nextLevel(level) ==
  IF level = <<>> THEN <<>>
  ELSE IF Len(level) = 1 THEN <<level[1]>>
  ELSE <<combinedHash(level[1], level[2])>> \o nextLevel(SubSeq(level, 3, Len(level)))

\* MerkleTree.rebuildTree: the hash of the root built bottom-up from the leaf
\* nodes as they are; no leaves give no root.
RECURSIVE rootOf(_)
rootOf(level) ==
  IF Len(level) = 1 THEN level[1] ELSE rootOf(nextLevel(level))

NullHash == <<>>

rebuildTree(t) ==
  IF t = <<>> THEN NullHash ELSE rootOf([i \in 1..Len(t) |-> t[i].node])

\* MerkleTree.getRootHash: every operation that changes the leaves rebuilds
\* the tree before it returns, so the root is the one rebuildTree gives.
getRootHash(t) == rebuildTree(t)

\* MerkleTree.getAllFiles: the file entries of the leaves, in Map order.
getAllFiles(t) ==
  [i \in 1..Len(t) |-> [path |-> t[i].path, hash |-> t[i].hash,
                        s3 |-> t[i].s3, ts |-> t[i].ts]]

\* MerkleTree.toJSON: the root hash and the flat list of file entries.
toJSON(t) == [rootHash |-> getRootHash(t), files |-> getAllFiles(t)]

\* MerkleTree.fromJSON: the leaves are cleared and one node is created per
\* listed entry, in order.
RECURSIVE loadFiles(_)
loadFiles(fs) ==
  IF fs = <<>> THEN <<>>
  ELSE LET e == fs[Len(fs)]
       IN createFileNode(loadFiles(SubSeq(fs, 1, Len(fs) - 1)), e.path, e.hash, e.s3, e.ts)

fromJSON(data) == loadFiles(data.files)

\* --------------------------------------------------- server Merkle tree
\* MerkleTree.fromJSON of routes/merkle.js: a Map keyed by file_path; a path
\* listed twice keeps its first place and its last value.
\* (variant: a path listed twice keeps its first value)
RECURSIVE serverFromJSON_KeepFirst(_)
serverFromJSON_KeepFirst(fs) ==
  IF fs = <<>> THEN <<>>
  ELSE LET rest == serverFromJSON_KeepFirst(SubSeq(fs, 1, Len(fs) - 1))
           e == fs[Len(fs)]
       IN IF Has(rest, e.path) THEN rest ELSE Append(rest, e)

RECURSIVE serverFromJSON(_)
serverFromJSON(fs) ==
  IF fs = <<>> THEN <<>>
  ELSE LET rest == serverFromJSON(SubSeq(fs, 1, Len(fs) - 1))
           e == fs[Len(fs)]
       IN IF Has(rest, e.path)
          THEN [rest EXCEPT ![IndexOf(rest, e.path)] = e]
          ELSE Append(rest, e)

\* MerkleTree.getDifferences of routes/merkle.js: `mine` is the receiver.
\* (variant: every entry present in both trees counts as modified)
modifiedEntry_Always(f, o) == TRUE

\* (variant: only a different content hash counts)
modifiedEntry_HashOnly(f, o) == f.hash # o.hash

modifiedEntry(f, o) == f.hash # o.hash \/ f.ts # o.ts

\* (variant: the loop over the other tree's entries is left out)
getDifferences_NoDeleted(mine, theirs) ==
  LET Added(f) == ~Has(theirs, f.path)
      Modified(f) == Has(theirs, f.path) /\ modifiedEntry(f, getFile(theirs, f.path))
  IN [added |-> SelectSeq(mine, Added),
      modified |-> SelectSeq(mine, Modified),
      deleted |-> <<>>]

getDifferences(mine, theirs) ==
  LET Added(f) == ~Has(theirs, f.path)
      Modified(f) == Has(theirs, f.path) /\ modifiedEntry(f, getFile(theirs, f.path))
      Deleted(f) == ~Has(mine, f.path)
  IN [added |-> SelectSeq(mine, Added),
      modified |-> SelectSeq(mine, Modified),
      deleted |-> SelectSeq(theirs, Deleted)]

NoDifferences == [added |-> <<>>, modified |-> <<>>, deleted |-> <<>>]

\* MerkleTree.getDifferences of client/lib/merkle-tree.js: both trees' file
\* lists are put into Maps keyed by file_path and compared entry by entry.
RECURSIVE byPath(_)
byPath(list) ==
  IF list = <<>> THEN <<>>
  ELSE LET m == byPath(SubSeq(list, 1, Len(list) - 1))
           f == list[Len(list)]
       IN IF Has(m, f.path) THEN [m EXCEPT ![IndexOf(m, f.path)] = f] ELSE Append(m, f)

\* (variant: added lists the other tree's entries that this tree lacks)
clientGetDifferences_Swapped(mine, theirs) ==
  LET myFiles == byPath(getAllFiles(mine))
      otherFiles == byPath(getAllFiles(theirs))
      Added(f) == ~Has(myFiles, f.path)
      Modified(f) ==
        /\ Has(otherFiles, f.path)
        /\ (f.hash # getFile(otherFiles, f.path).hash \/ f.ts # getFile(otherFiles, f.path).ts)
      Deleted(f) == ~Has(myFiles, f.path)
  IN [added |-> SelectSeq(otherFiles, Added),
      modified |-> SelectSeq(myFiles, Modified),
      deleted |-> SelectSeq(otherFiles, Deleted)]

clientGetDifferences(mine, theirs) ==
  LET myFiles == byPath(getAllFiles(mine))
      otherFiles == byPath(getAllFiles(theirs))
      Added(f) == ~Has(otherFiles, f.path)
      Modified(f) ==
        /\ Has(otherFiles, f.path)
        /\ (f.hash # getFile(otherFiles, f.path).hash \/ f.ts # getFile(otherFiles, f.path).ts)
      Deleted(f) == ~Has(myFiles, f.path)
  IN [added |-> SelectSeq(myFiles, Added),
      modified |-> SelectSeq(myFiles, Modified),
      deleted |-> SelectSeq(otherFiles, Deleted)]

\* ------------------------------------------------------------------ state
VARIABLES
  active,              \* the devices whose client process runs
  cycleCap,            \* performSync invocations a device may have running at once
  disk,                \* disk[d][p]: content of p in d's watch directory, or NoFile
  written,             \* written[d][p]: who last wrote or removed p on d's disk
  tree,                \* merkleTree of file-watcher.js, per device
  watcherEvents,       \* chokidar events not yet delivered to handleFileChange
  uploadQueue,         \* uploadQueue Map of file-watcher.js, in insertion order
  drainTimers,         \* pending setTimeout(processUploadQueue, 1000)
  isProcessing,        \* isProcessing flag of file-watcher.js
  drains,              \* the processUploadQueue invocations past their guard
  downloadingFiles,    \* downloadingFiles Set of file-watcher.js
  recentlyDownloaded,  \* recentlyDownloaded Map of file-watcher.js
  expiryTimers,        \* pending 10 s timers of markDownloadComplete, per path
  cycles,              \* the performSync invocations that hold a diff
  lastSyncAt,          \* lastSyncAt of sync.js (0: null)
  merkle_trees,        \* server table merkle_trees: the rows of each device
  files,               \* server table files with each record's blob
  uploadLog,           \* per device, the api.uploadFile invocations made so far,
                       \* each with its outcome (ok)
  now,                 \* each device's clock: the next reading of new Date()
  faultsLeft,          \* failures the environment may still inject
  editsLeft            \* user edits still to come, per device

vars == <<active, cycleCap, disk, written, tree, watcherEvents, uploadQueue, drainTimers,
          isProcessing, drains, downloadingFiles, recentlyDownloaded,
          expiryTimers, cycles, lastSyncAt, merkle_trees, files, uploadLog,
          now, faultsLeft, editsLeft>>

\* --------------------------------------------------------- server handlers
\* The active file records of the user with a given content hash.
activeByHash(fs, h) == {i \in 1..Len(fs) : fs[i].hash = h /\ fs[i].active}

\* The duplicate check of the upload handler: the active records with the
\* hash of the uploaded bytes, as its SELECT finds them.
existingFile(fs, c) == activeByHash(fs, calculateFileHash(c))

\* putObject and INSERT INTO files: a new record with its blob.
insertFile(fs, c) ==
  Append(fs, [hash |-> calculateFileHash(c), blob |-> c, active |-> TRUE])

\* (variant: the duplicate check is not made)
serverUpload_NoDedup(fs, c) == [files |-> insertFile(fs, c), id |-> Len(fs) + 1]

\* router.post('/upload') served without another request in between: a
\* record with the same hash is returned as it is; otherwise the blob is
\* stored and a record inserted.  The result is the files table and the id
\* the response's s3Url points at.
serverUpload(fs, c) ==
  LET dup == existingFile(fs, c)
  IN IF dup # {}
     THEN [files |-> fs, id |-> Min(dup)]
     ELSE [files |-> insertFile(fs, c), id |-> Len(fs) + 1]

\* router.delete('/hash/:fileHash'): the first active record with the hash
\* loses its blob and is marked deleted; no such record is a 404.
serverDeleteByHash(fs, h) ==
  LET hit == activeByHash(fs, h)
  IN IF hit = {} THEN fs
     ELSE [fs EXCEPT ![Min(hit)].blob = NoFile, ![Min(hit)].active = FALSE]

\* The SELECT of router.post('/update') and router.post('/diff'): the rows of
\* merkle_trees of the user's device.  A row is [files, rootHash, version].
existingTree(mt, d) == mt[d]

\* INSERT INTO merkle_trees: a new row; version takes the column's default 1.
\* The rows of a device are kept in the order a SELECT returns them, which
\* no ORDER BY fixes: the new row takes place k among them.
insertTree(mt, d, treeData, k) ==
  [mt EXCEPT ![d] = SubSeq(@, 1, k - 1)
                    \o <<[files |-> treeData.files, rootHash |-> treeData.rootHash,
                          version |-> 1]>>
                    \o SubSeq(@, k, Len(@))]

\* (variant: the WHERE clause names the user only)
updateTree_AnyDevice(mt, d, treeData) ==
  [e \in Devices |-> [k \in 1..Len(mt[e]) |->
     [files |-> treeData.files, rootHash |-> treeData.rootHash,
      version |-> mt[e][k].version + 1]]]

\* UPDATE merkle_trees ... WHERE user_id = $1 AND device_id = $2: every row of
\* the device takes the supplied tree; version = version + 1.
updateTree(mt, d, treeData) ==
  [mt EXCEPT ![d] = [k \in 1..Len(@) |->
     [files |-> treeData.files, rootHash |-> treeData.rootHash,
      version |-> @[k].version + 1]]]

\* router.post('/update') served without another request in between: the
\* device's tree is updated when the SELECT finds one and inserted otherwise.
serverUpdate(mt, d, treeData) ==
  IF existingTree(mt, d) # <<>> THEN updateTree(mt, d, treeData)
  ELSE insertTree(mt, d, treeData, 1)

\* enrichFilesWithFreshUrls: the newest active record with the entry's hash
\* gives the entry an id and a fresh URL; without one the entry is returned
\* as stored, with no id.
enrichFile(fs, f) ==
  LET hit == activeByHash(fs, f.hash)
  IN IF hit # {}
     THEN [path |-> f.path, hash |-> f.hash, ts |-> f.ts, s3 |-> Max(hit), id |-> Max(hit)]
     ELSE [path |-> f.path, hash |-> f.hash, ts |-> f.ts, s3 |-> f.s3, id |-> 0]

enrichFilesWithFreshUrls(fs, list) == [i \in 1..Len(list) |-> enrichFile(fs, list[i])]

\* serverResult.rows of router.post('/diff'), as far as the handler looks at
\* it: no row, or rows[0].
NoTree == [files |-> <<>>, rootHash |-> NullHash, version |-> 0]

storedTreeFor(mt, d) ==
  IF existingTree(mt, d) = <<>> THEN NoTree ELSE existingTree(mt, d)[1]

\* (variant: a device without a stored tree is compared as an empty tree)
differencesFor_EmptyMine(row, localTreeData) ==
  getDifferences(serverFromJSON(row.files), serverFromJSON(localTreeData.files))

\* The differences router.post('/diff') computes: the stored tree is `mine`,
\* the caller's tree `theirs`; no stored tree gives three empty lists.
differencesFor(row, localTreeData) ==
  IF row # NoTree
  THEN getDifferences(serverFromJSON(row.files), serverFromJSON(localTreeData.files))
  ELSE NoDifferences

\* router.post('/diff'): the differences, with added and modified enriched.
serverDiff(row, fs, localTreeData) ==
  LET diff == differencesFor(row, localTreeData)
  IN [added |-> enrichFilesWithFreshUrls(fs, diff.added),
      modified |-> enrichFilesWithFreshUrls(fs, diff.modified),
      deleted |-> diff.deleted]

\* ------------------------------------------------------------------- init
InitWith(devs, edits, cap, faults, trees, clock) ==
  /\ active = devs
  /\ cycleCap = cap
  /\ disk = [d \in Devices |-> [p \in Paths |-> NoFile]]
  /\ written = [d \in Devices |-> [p \in Paths |-> "none"]]
  /\ tree = trees
  /\ watcherEvents = [d \in Devices |-> <<>>]
  /\ uploadQueue = [d \in Devices |-> <<>>]
  /\ drainTimers = [d \in Devices |-> 0]
  /\ isProcessing = [d \in Devices |-> FALSE]
  /\ drains = [d \in Devices |-> <<>>]
  /\ downloadingFiles = [d \in Devices |-> {}]
  /\ recentlyDownloaded = [d \in Devices |-> <<>>]
  /\ expiryTimers = [d \in Devices |-> [p \in Paths |-> 0]]
  /\ cycles = [d \in Devices |-> <<>>]
  /\ lastSyncAt = [d \in Devices |-> 0]
  /\ merkle_trees = [d \in Devices |-> <<>>]
  /\ files = <<>>
  /\ uploadLog = [d \in Devices |-> <<>>]
  /\ now = [d \in Devices |-> clock]
  /\ faultsLeft = faults
  /\ editsLeft = edits

\* One device, with overlapping sync cycles and injected faults.
Init == InitWith({"A"}, [d \in Devices |-> IF d = "A" THEN MaxEdits ELSE 0],
                 [d \in Devices |-> MaxCycles], MaxFaults, [d \in Devices |-> <<>>], 1)

\* Two devices of one user: A edits, B makes one edit; no faults, a device
\* runs one sync cycle at a time, and a clock gives PeerClock readings.
InitTwo == InitWith(Devices, [d \in Devices |-> IF d = "A" THEN MaxEdits ELSE PeerEdits],
                    [d \in Devices |-> 1], 0, [d \in Devices |-> <<>>],
                    MaxClock - PeerClock)

\* ---------------------------------------------------- cycle bookkeeping
\* A cycle record holds the lists performSync still has to work through
\* (downloads, deleted), whether a download is in flight (busy), and `clean`:
\* nothing but the cycle itself has touched the device's files, its tree, its
\* stored tree or the user's file records since the cycle took its diff, and
\* none of its downloads failed.
disturbed(cs) == [i \in 1..Len(cs) |-> [cs[i] EXCEPT !.clean = FALSE]]

disturb(D) ==
  cycles' = [e \in Devices |-> IF e \in D THEN disturbed(cycles[e]) ELSE cycles[e]]

\* ------------------------------------------------------------ environment
\* The user writes content c to path p of device d; chokidar reports 'add'
\* for a new file and 'change' for an existing one.
UserWrite(d, p, c) ==
  /\ d \in active
  /\ editsLeft[d] > 0
  /\ editsLeft' = [editsLeft EXCEPT ![d] = @ - 1]
  /\ disk' = [disk EXCEPT ![d][p] = c]
  /\ written' = [written EXCEPT ![d][p] = "user"]
  /\ watcherEvents' = [watcherEvents EXCEPT ![d] = Append(@,
        [path |-> p, type |-> IF disk[d][p] = NoFile THEN "add" ELSE "change",
         src |-> "user"])]
  /\ disturb({d})
  /\ UNCHANGED <<active, cycleCap, tree, uploadQueue, drainTimers, isProcessing, drains,
                 downloadingFiles, recentlyDownloaded, expiryTimers,
                 lastSyncAt, merkle_trees, files, uploadLog, now, faultsLeft>>

\* The user removes path p of device d; chokidar reports 'unlink'.
UserDelete(d, p) ==
  /\ d \in active
  /\ editsLeft[d] > 0
  /\ disk[d][p] # NoFile
  /\ editsLeft' = [editsLeft EXCEPT ![d] = @ - 1]
  /\ disk' = [disk EXCEPT ![d][p] = NoFile]
  /\ written' = [written EXCEPT ![d][p] = "user"]
  /\ watcherEvents' = [watcherEvents EXCEPT ![d] = Append(@,
        [path |-> p, type |-> "unlink", src |-> "user"])]
  /\ disturb({d})
  /\ UNCHANGED <<active, cycleCap, tree, uploadQueue, drainTimers, isProcessing, drains,
                 downloadingFiles, recentlyDownloaded, expiryTimers,
                 lastSyncAt, merkle_trees, files, uploadLog, now, faultsLeft>>

\* ------------------------------------------- change detector (file-watcher)
\* The 'recently downloaded' test of handleFileChange and processUploadQueue:
\* a record for the path whose hash equals the file's current hash.
\* (variant: any record for the path counts, whatever its hash)
sameAsDownloaded_AnyHash(rd, p, currentHash) == Has(rd, p)

sameAsDownloaded(rd, p, currentHash) ==
  Has(rd, p) /\ currentHash = getFile(rd, p).hash

\* queueUpload: uploadQueue.set(relativePath, {..., hash}): a path already
\* queued keeps its place and takes the new job.
\* (variant: every call appends a job of its own)
queueUpload_Append(q, p, h) == Append(q, [path |-> p, hash |-> h])

queueUpload(q, p, h) ==
  LET job == [path |-> p, hash |-> h]
  IN IF Has(q, p) THEN [q EXCEPT ![IndexOf(q, p)] = job] ELSE Append(q, job)

\* The first test of handleFileChange after the ignore patterns: an event of
\* any type for a path in the downloading set is dropped.
\* (variant: no event is dropped for being in the downloading set)
ignoresEvent_Never(d, p) == FALSE

ignoresEvent(d, p) == p \in downloadingFiles[d]

\* handleFileChange(filePath, 'add' | 'change') on the head event.
HandleWrite(d) ==
  /\ d \in active
  /\ watcherEvents[d] # <<>>
  /\ LET ev == Head(watcherEvents[d])
         p == ev.path
         currentHash == calculateFileHash(disk[d][p])
     IN /\ ev.type \in {"add", "change"}
        /\ watcherEvents' = [watcherEvents EXCEPT ![d] = Tail(@)]
        /\ IF ignoresEvent(d, p) \/ sameAsDownloaded(recentlyDownloaded[d], p, currentHash)
           THEN UNCHANGED <<tree, uploadQueue, drainTimers, now, cycles>>
           ELSE /\ disturb({d})
                /\ IF currentHash # Null
                   THEN /\ now[d] < MaxClock
                        /\ tree' = [tree EXCEPT ![d] = addOrUpdateFile(@, p, currentHash, 0, now[d])]
                        /\ now' = [now EXCEPT ![d] = @ + 1]
                   ELSE UNCHANGED <<tree, now>>
                /\ uploadQueue' = [uploadQueue EXCEPT ![d] = queueUpload(@, p, currentHash)]
                /\ drainTimers' = [drainTimers EXCEPT ![d] = @ + 1]
  /\ UNCHANGED <<active, cycleCap, disk, written, isProcessing, drains, downloadingFiles,
                 recentlyDownloaded, expiryTimers, lastSyncAt,
                 merkle_trees, files, uploadLog, faultsLeft, editsLeft>>

\* The local tree after handleLocalDeletion asked the server to delete the
\* file: the inner catch logs a failed request and the entry is removed
\* whatever the outcome.
\* (variant: the entry is removed only when the remote deletion succeeded)
localDeletion_OnSuccess(t, p, deleteOk) == IF deleteOk THEN removeFile(t, p) ELSE t

localDeletion(t, p, deleteOk) == removeFile(t, p)

\* handleFileChange(filePath, 'unlink') on the head event, with
\* handleLocalDeletion: the remote delete by hash and the tree update may
\* each fail; the local entry is removed either way.
HandleUnlink(d, deleteOk, updateOk) ==
  /\ d \in active
  /\ watcherEvents[d] # <<>>
  /\ LET ev == Head(watcherEvents[d])
         p == ev.path
         tracked == Has(tree[d], p)
         nfail == (IF tracked /\ ~deleteOk THEN 1 ELSE 0) + (IF ~updateOk THEN 1 ELSE 0)
     IN /\ ev.type = "unlink"
        /\ watcherEvents' = [watcherEvents EXCEPT ![d] = Tail(@)]
        /\ IF ignoresEvent(d, p)
           THEN /\ deleteOk /\ updateOk
                /\ UNCHANGED <<tree, merkle_trees, files, faultsLeft, cycles>>
           ELSE /\ disturb(Devices)
                /\ tracked \/ deleteOk
                /\ nfail <= faultsLeft
                /\ faultsLeft' = faultsLeft - nfail
                /\ files' = IF tracked /\ deleteOk
                            THEN serverDeleteByHash(files, getFile(tree[d], p).hash)
                            ELSE files
                /\ tree' = [tree EXCEPT ![d] = localDeletion(@, p, deleteOk)]
                /\ merkle_trees' = IF updateOk
                                   THEN serverUpdate(merkle_trees, d, toJSON(tree'[d]))
                                   ELSE merkle_trees
  /\ UNCHANGED <<active, cycleCap, disk, written, uploadQueue, drainTimers, isProcessing,
                 drains, downloadingFiles, recentlyDownloaded, expiryTimers,
                 lastSyncAt, uploadLog, now, editsLeft>>

\* ---------------------------------------------- upload scheduler (drain)
RemoveAt(seq, i) == SubSeq(seq, 1, i - 1) \o SubSeq(seq, i + 1, Len(seq))

\* The guard of processUploadQueue: a drain starts unless one is active or
\* the queue is empty.
\* (variant: the isProcessing flag is not consulted)
drainStarts_NoFlag(d) == uploadQueue[d] # <<>>

drainStarts(d) == ~(isProcessing[d] \/ uploadQueue[d] = <<>>)

\* A setTimeout(processUploadQueue, 1000) fires.  A started drain takes the
\* whole queue as its batch and clears the queue.
DrainTrigger(d) ==
  /\ d \in active
  /\ drainTimers[d] > 0
  /\ drainTimers' = [drainTimers EXCEPT ![d] = @ - 1]
  /\ IF drainStarts(d)
     THEN /\ isProcessing' = [isProcessing EXCEPT ![d] = TRUE]
          /\ drains' = [drains EXCEPT ![d] = Append(@,
                [files |-> uploadQueue[d], pc |-> "next", s3 |-> 0, c |-> NoFile,
                 treeData |-> toJSON(<<>>)])]
          /\ uploadQueue' = [uploadQueue EXCEPT ![d] = <<>>]
     ELSE UNCHANGED <<isProcessing, drains, uploadQueue>>
  /\ UNCHANGED <<active, cycleCap, disk, written, tree, watcherEvents, downloadingFiles,
                 recentlyDownloaded, expiryTimers, cycles, lastSyncAt,
                 merkle_trees, files, uploadLog, now, faultsLeft, editsLeft>>

\* What is left of a batch (a drain's files, a cycle's download or deletion
\* list) after its head item failed: the item's own catch logs the error and
\* the loop goes on with the next item.
\* (variant: the failure ends the batch)
afterFailure_Abort(batch) == <<>>

afterFailure(batch) == Tail(batch)

\* What api.uploadFile(fileInfo.fullPath, ...) sends: the file's bytes as
\* they are on disk when the item is drained.
uploadedContent(d, job) == disk[d][job.path]

\* The next item of a drain's batch, up to the upload handler's duplicate
\* check: a file that is gone or that matches a recent download is skipped; a
\* failed upload is caught and the item dropped.  When the check finds a
\* record, the handler answers with it; when it finds none, the handler goes
\* on to store the blob and insert a record (UploadInsert), and other requests
\* are served in between.
DrainItem(d, i, uploadOk) ==
  /\ d \in active
  /\ i \in 1..Len(drains[d])
  /\ drains[d][i].pc = "next"
  /\ drains[d][i].files # <<>>
  /\ LET job == Head(drains[d][i].files)
         p == job.path
         c == uploadedContent(d, job)
         skip == \/ disk[d][p] = NoFile
                 \/ sameAsDownloaded(recentlyDownloaded[d], p, calculateFileHash(disk[d][p]))
         popped == [drains[d][i] EXCEPT !.files = Tail(@)]
     IN IF skip
        THEN /\ uploadOk
             /\ drains' = [drains EXCEPT ![d][i] = popped]
             /\ UNCHANGED <<files, uploadLog, faultsLeft, cycles>>
        ELSE /\ uploadLog' = [uploadLog EXCEPT ![d] = Append(@,
                   [path |-> p, hash |-> calculateFileHash(c), ok |-> uploadOk])]
             /\ IF uploadOk
                THEN /\ IF existingFile(files, c) # {}
                        THEN /\ files' = serverUpload(files, c).files
                             /\ drains' = [drains EXCEPT ![d][i] =
                                   [@ EXCEPT !.pc = "uploaded",
                                             !.s3 = serverUpload(files, c).id]]
                        ELSE /\ drains' = [drains EXCEPT ![d][i] =
                                   [@ EXCEPT !.pc = "uploading", !.c = c]]
                             /\ UNCHANGED files
                     /\ IF files' # files THEN disturb(Devices) ELSE UNCHANGED cycles
                     /\ UNCHANGED faultsLeft
                ELSE /\ faultsLeft > 0
                     /\ faultsLeft' = faultsLeft - 1
                     /\ drains' = [drains EXCEPT ![d][i] =
                           [@ EXCEPT !.files = afterFailure(@)]]
                     /\ UNCHANGED <<files, cycles>>
  /\ UNCHANGED <<active, cycleCap, disk, written, tree, watcherEvents, uploadQueue,
                 drainTimers, isProcessing, downloadingFiles, recentlyDownloaded,
                 expiryTimers, lastSyncAt, merkle_trees, now, editsLeft>>

\* The upload handler, past a duplicate check that found nothing, stores the
\* blob, inserts the record and answers with it.
UploadInsert(d, i) ==
  /\ d \in active
  /\ i \in 1..Len(drains[d])
  /\ drains[d][i].pc = "uploading"
  /\ files' = insertFile(files, drains[d][i].c)
  /\ drains' = [drains EXCEPT ![d][i] =
        [@ EXCEPT !.pc = "uploaded", !.s3 = Len(files) + 1, !.c = NoFile]]
  /\ disturb(Devices)
  /\ UNCHANGED <<active, cycleCap, disk, written, tree, watcherEvents, uploadQueue,
                 drainTimers, isProcessing, downloadingFiles, recentlyDownloaded,
                 expiryTimers, lastSyncAt, merkle_trees, uploadLog, now,
                 faultsLeft, editsLeft>>

\* After a successful upload: the returned URL is attached to the path's
\* leaf and the tree is sent to the server; a failed tree update is logged
\* and the drain goes on.  When the update handler's SELECT finds a tree, its
\* UPDATE follows; when it finds none, the handler goes on to insert one
\* (UpdateInsert), and other requests are served in between.
DrainApply(d, i, updateOk) ==
  /\ d \in active
  /\ i \in 1..Len(drains[d])
  /\ drains[d][i].pc = "uploaded"
  /\ LET p == Head(drains[d][i].files).path
         done == [files |-> Tail(drains[d][i].files), pc |-> "next", s3 |-> 0,
                  c |-> NoFile, treeData |-> toJSON(<<>>)]
     IN /\ IF Has(tree[d], p)
           THEN /\ now[d] < MaxClock
                /\ tree' = [tree EXCEPT ![d] = updateS3Url(@, p, drains[d][i].s3, now[d])]
                /\ now' = [now EXCEPT ![d] = @ + 1]
           ELSE UNCHANGED <<tree, now>>
        /\ IF updateOk
           THEN /\ IF existingTree(merkle_trees, d) # <<>>
                   THEN /\ merkle_trees' = serverUpdate(merkle_trees, d, toJSON(tree'[d]))
                        /\ drains' = [drains EXCEPT ![d][i] = done]
                   ELSE /\ drains' = [drains EXCEPT ![d][i] =
                              [@ EXCEPT !.pc = "updating", !.treeData = toJSON(tree'[d])]]
                        /\ UNCHANGED merkle_trees
                /\ UNCHANGED faultsLeft
           ELSE /\ faultsLeft > 0
                /\ faultsLeft' = faultsLeft - 1
                /\ drains' = [drains EXCEPT ![d][i] =
                      [done EXCEPT !.files = afterFailure(drains[d][i].files)]]
                /\ UNCHANGED merkle_trees
  /\ disturb({d})
  /\ UNCHANGED <<active, cycleCap, disk, written, watcherEvents, uploadQueue, drainTimers,
                 isProcessing, downloadingFiles, recentlyDownloaded,
                 expiryTimers, lastSyncAt, files, uploadLog, editsLeft>>

\* The update handler, past a SELECT that found no tree of the device,
\* inserts one and answers; the drain goes on with its next item.
UpdateInsert(d, i) ==
  /\ d \in active
  /\ i \in 1..Len(drains[d])
  /\ drains[d][i].pc = "updating"
  /\ \E k \in 1..(Len(existingTree(merkle_trees, d)) + 1) :
        merkle_trees' = insertTree(merkle_trees, d, drains[d][i].treeData, k)
  /\ drains' = [drains EXCEPT ![d][i] =
        [files |-> Tail(@.files), pc |-> "next", s3 |-> 0, c |-> NoFile,
         treeData |-> toJSON(<<>>)]]
  /\ disturb({d})
  /\ UNCHANGED <<active, cycleCap, disk, written, tree, watcherEvents, uploadQueue,
                 drainTimers, isProcessing, downloadingFiles, recentlyDownloaded,
                 expiryTimers, lastSyncAt, files, uploadLog, now, faultsLeft,
                 editsLeft>>

\* The flag after the loop of processUploadQueue: isProcessing = false.
\* (variant: the flag is left as it is)
flagAfterDrain_Kept(flag) == flag

flagAfterDrain(flag) == FALSE

\* The batch is exhausted: isProcessing = false.
DrainFinish(d, i) ==
  /\ d \in active
  /\ i \in 1..Len(drains[d])
  /\ drains[d][i].pc = "next"
  /\ drains[d][i].files = <<>>
  /\ drains' = [drains EXCEPT ![d] = RemoveAt(@, i)]
  /\ isProcessing' = [isProcessing EXCEPT ![d] = flagAfterDrain(@)]
  /\ UNCHANGED <<active, cycleCap, disk, written, tree, watcherEvents, uploadQueue,
                 drainTimers, downloadingFiles, recentlyDownloaded, expiryTimers,
                 cycles, lastSyncAt, merkle_trees, files, uploadLog, now,
                 faultsLeft, editsLeft>>

\* -------------------------------------------------- loop-prevention marks
\* markDownloadComplete: recentlyDownloaded.set(relativePath, {hash, ...}).
recordDownload(rd, p, h) ==
  LET r == [path |-> p, hash |-> h]
  IN IF Has(rd, p) THEN [rd EXCEPT ![IndexOf(rd, p)] = r] ELSE Append(rd, r)

\* A sync-caused event for p is still on its way to handleFileChange.
echoPending(d, p) ==
  \E k \in 1..Len(watcherEvents[d]) :
     watcherEvents[d][k].path = p /\ watcherEvents[d][k].src = "sync"

\* A 10 s timer of markDownloadComplete fires.  Only the timer of the latest
\* completion finds an entry that is 10 s old, and it deletes the entry when
\* strictly more than 10000 ms have passed (`late`); an earlier timer finds a
\* younger entry and leaves it.  Timing: the watcher delivers an event about
\* 1 s after the write, so the latest timer fires after the events of the
\* download it belongs to were delivered.
ExpireTimer(d, p, late) ==
  /\ d \in active
  /\ expiryTimers[d][p] > 0
  /\ expiryTimers[d][p] = 1 => ~echoPending(d, p)
  /\ expiryTimers' = [expiryTimers EXCEPT ![d][p] = @ - 1]
  /\ IF expiryTimers[d][p] = 1 /\ late
     THEN recentlyDownloaded' = [recentlyDownloaded EXCEPT ![d] = Remove(@, p)]
     ELSE UNCHANGED recentlyDownloaded
  /\ expiryTimers[d][p] > 1 => late
  /\ UNCHANGED <<active, cycleCap, disk, written, tree, watcherEvents, uploadQueue,
                 drainTimers, isProcessing, drains, downloadingFiles, cycles,
                 lastSyncAt, merkle_trees, files, uploadLog, now, faultsLeft,
                 editsLeft>>

\* ------------------------------------------------- sync orchestrator
\* The guard of performSync: whether a trigger starts a cycle.
syncStarts(d) == TRUE

\* The download list of performSync: added then modified.
filesToDownload(diff) == diff.added \o diff.modified

\* The timer (or the initial call) invokes performSync: the local snapshot is
\* sent and the server's diff for this device comes back.  A failed request
\* ends the cycle in its catch; an empty diff ends it with lastSyncAt set.
SyncStart(d, diffOk) ==
  /\ d \in active
  /\ syncStarts(d)
  /\ Len(cycles[d]) < cycleCap[d]
  /\ IF diffOk
     THEN LET diff == serverDiff(storedTreeFor(merkle_trees, d), files, toJSON(tree[d]))
          IN /\ IF diff = NoDifferences
                THEN /\ lastSyncAt' = [lastSyncAt EXCEPT ![d] = now[d]]
                     /\ UNCHANGED cycles
                ELSE /\ cycles' = [cycles EXCEPT ![d] = Append(@,
                           [downloads |-> filesToDownload(diff),
                            deleted |-> diff.deleted, busy |-> FALSE,
                            clean |-> TRUE])]
                     /\ UNCHANGED lastSyncAt
             /\ UNCHANGED faultsLeft
     ELSE /\ faultsLeft > 0
          /\ faultsLeft' = faultsLeft - 1
          /\ UNCHANGED <<cycles, lastSyncAt>>
  /\ UNCHANGED <<active, cycleCap, disk, written, tree, watcherEvents, uploadQueue,
                 drainTimers, isProcessing, drains, downloadingFiles,
                 recentlyDownloaded, expiryTimers, merkle_trees, files,
                 uploadLog, now, editsLeft>>

\* Whether performSync and downloadFileFromServer request the download of
\* entry f: it has a URL and an id, and the local file is missing or has
\* another hash than the declared one.
\* (variant: the local file's hash is not compared)
fetches_NoHashTest(d, f) == f.s3 # 0 /\ f.id # 0

fetches(d, f) ==
  /\ f.s3 # 0 /\ f.id # 0
  /\ ~(disk[d][f.path] # NoFile /\ calculateFileHash(disk[d][f.path]) = f.hash)

\* The next entry of the download list, up to the download request: an entry
\* without URL or id is skipped, and so is one whose local file already has
\* the declared hash; otherwise the path is marked as downloading.
SyncDownload(d, i) ==
  /\ d \in active
  /\ i \in 1..Len(cycles[d])
  /\ ~cycles[d][i].busy
  /\ cycles[d][i].downloads # <<>>
  /\ LET f == Head(cycles[d][i].downloads)
     IN IF fetches(d, f)
        THEN /\ downloadingFiles' = [downloadingFiles EXCEPT ![d] = @ \cup {f.path}]
             /\ cycles' = [cycles EXCEPT ![d][i].busy = TRUE]
        ELSE /\ cycles' = [cycles EXCEPT ![d][i].downloads = Tail(@)]
             /\ UNCHANGED downloadingFiles
  /\ UNCHANGED <<active, cycleCap, disk, written, tree, watcherEvents, uploadQueue,
                 drainTimers, isProcessing, drains, recentlyDownloaded,
                 expiryTimers, lastSyncAt, merkle_trees, files, uploadLog, now,
                 faultsLeft, editsLeft>>

\* The downloading set after markDownloadComplete, which both the normal
\* path and the catch of downloadFileFromServer call.
\* (variant: only a successful download unmarks the path)
unmarkDownloading_OnSuccess(set, p, failed) == IF failed THEN set ELSE set \ {p}

unmarkDownloading(set, p, failed) == set \ {p}

\* What downloadFileFromServer accepts from api.downloadFile: whatever bytes
\* arrived are written and recorded under the declared hash.
acceptsDownload(f, c) == TRUE

\* api.downloadFile returns.  The bytes are those of the record's blob, or
\* (a fault) other bytes; the request fails when the record is no longer
\* active or (a fault) the transfer fails.  On success the file is written,
\* the leaf upserted with the declared hash and the download marked complete
\* with that hash; on failure it is marked complete with a null hash.
SyncDownloadEnd(d, i, c) ==
  /\ d \in active
  /\ i \in 1..Len(cycles[d])
  /\ cycles[d][i].busy
  /\ LET f == Head(cycles[d][i].downloads)
         p == f.path
         rec == files[f.id]
         intact == rec.active /\ c = rec.blob
         failed == c = NoFile
     IN /\ failed \/ rec.active
        /\ IF intact \/ (failed /\ ~rec.active)
           THEN UNCHANGED faultsLeft
           ELSE faultsLeft > 0 /\ faultsLeft' = faultsLeft - 1
        /\ IF ~failed /\ acceptsDownload(f, c)
           THEN /\ now[d] < MaxClock
                /\ disk' = [disk EXCEPT ![d][p] = c]
                /\ written' = [written EXCEPT ![d][p] = "sync"]
                /\ watcherEvents' = [watcherEvents EXCEPT ![d] = Append(@,
                      [path |-> p,
                       type |-> IF disk[d][p] = NoFile THEN "add" ELSE "change",
                       src |-> "sync"])]
                /\ tree' = [tree EXCEPT ![d] = addOrUpdateFile(@, p, f.hash, f.s3, now[d])]
                /\ now' = [now EXCEPT ![d] = @ + 1]
                /\ recentlyDownloaded' = [recentlyDownloaded EXCEPT ![d] =
                      recordDownload(@, p, f.hash)]
           ELSE /\ recentlyDownloaded' = [recentlyDownloaded EXCEPT ![d] =
                      recordDownload(@, p, Null)]
                /\ UNCHANGED <<disk, written, watcherEvents, tree, now>>
        /\ downloadingFiles' = [downloadingFiles EXCEPT ![d] = unmarkDownloading(@, p, failed)]
        /\ expiryTimers' = [expiryTimers EXCEPT ![d][p] = @ + 1]
        /\ cycles' = [cycles EXCEPT ![d] = [j \in 1..Len(@) |->
              IF j = i
              THEN [downloads |-> IF failed THEN afterFailure(@[j].downloads)
                                  ELSE Tail(@[j].downloads),
                    deleted |-> @[j].deleted,
                    busy |-> FALSE, clean |-> @[j].clean /\ intact]
              ELSE [@[j] EXCEPT !.clean = @ /\ failed]]]
  /\ UNCHANGED <<active, cycleCap, uploadQueue, drainTimers, isProcessing, drains,
                 lastSyncAt, merkle_trees, files, uploadLog, editsLeft>>

\* handleServerDeletion on the next server-perspective deleted entry: the
\* local file is removed if it exists and the path leaves the local tree.  A
\* failing fs.remove is caught: the file and the tree stay as they are.
SyncDelete(d, i, removeOk) ==
  /\ d \in active
  /\ i \in 1..Len(cycles[d])
  /\ ~cycles[d][i].busy
  /\ cycles[d][i].downloads = <<>>
  /\ cycles[d][i].deleted # <<>>
  /\ LET p == Head(cycles[d][i].deleted).path
     IN IF removeOk
        THEN /\ IF disk[d][p] # NoFile
                THEN /\ disk' = [disk EXCEPT ![d][p] = NoFile]
                     /\ written' = [written EXCEPT ![d][p] = "sync"]
                     /\ watcherEvents' = [watcherEvents EXCEPT ![d] = Append(@,
                           [path |-> p, type |-> "unlink", src |-> "sync"])]
                ELSE UNCHANGED <<disk, written, watcherEvents>>
             /\ tree' = [tree EXCEPT ![d] = removeFile(@, p)]
             /\ cycles' = [cycles EXCEPT ![d] = [j \in 1..Len(@) |->
                   IF j = i THEN [@[j] EXCEPT !.deleted = Tail(@)]
                   ELSE [@[j] EXCEPT !.clean = FALSE]]]
             /\ UNCHANGED faultsLeft
        ELSE /\ disk[d][p] # NoFile
             /\ faultsLeft > 0
             /\ faultsLeft' = faultsLeft - 1
             /\ cycles' = [cycles EXCEPT ![d][i] =
                   [@ EXCEPT !.deleted = afterFailure(@), !.clean = FALSE]]
             /\ UNCHANGED <<disk, written, watcherEvents, tree>>
  /\ UNCHANGED <<active, cycleCap, uploadQueue, drainTimers, isProcessing, drains,
                 downloadingFiles, recentlyDownloaded, expiryTimers, lastSyncAt,
                 merkle_trees, files, uploadLog, now, editsLeft>>

\* Both lists are done: the tree is saved and lastSyncAt set.
SyncFinish(d, i) ==
  /\ d \in active
  /\ i \in 1..Len(cycles[d])
  /\ ~cycles[d][i].busy
  /\ cycles[d][i].downloads = <<>>
  /\ cycles[d][i].deleted = <<>>
  /\ cycles' = [cycles EXCEPT ![d] = RemoveAt(@, i)]
  /\ lastSyncAt' = [lastSyncAt EXCEPT ![d] = now[d]]
  /\ UNCHANGED <<active, cycleCap, disk, written, tree, watcherEvents, uploadQueue,
                 drainTimers, isProcessing, drains, downloadingFiles,
                 recentlyDownloaded, expiryTimers, merkle_trees, files,
                 uploadLog, now, faultsLeft, editsLeft>>

\* ----------------------------------------------------------- specification
Next ==
  \/ \E d \in Devices, p \in Paths, c \in Contents : UserWrite(d, p, c)
  \/ \E d \in Devices, p \in Paths : UserDelete(d, p)
  \/ \E d \in Devices : HandleWrite(d)
  \/ \E d \in Devices, deleteOk, updateOk \in BOOLEAN : HandleUnlink(d, deleteOk, updateOk)
  \/ \E d \in Devices : DrainTrigger(d)
  \/ \E d \in Devices : \E i \in 1..Len(drains[d]), ok \in BOOLEAN : DrainItem(d, i, ok)
  \/ \E d \in Devices : \E i \in 1..Len(drains[d]) : UploadInsert(d, i)
  \/ \E d \in Devices : \E i \in 1..Len(drains[d]), ok \in BOOLEAN : DrainApply(d, i, ok)
  \/ \E d \in Devices : \E i \in 1..Len(drains[d]) : UpdateInsert(d, i)
  \/ \E d \in Devices : \E i \in 1..Len(drains[d]) : DrainFinish(d, i)
  \/ \E d \in Devices, p \in Paths, late \in BOOLEAN : ExpireTimer(d, p, late)
  \/ \E d \in Devices, ok \in BOOLEAN : SyncStart(d, ok)
  \/ \E d \in Devices : \E i \in 1..Len(cycles[d]) : SyncDownload(d, i)
  \/ \E d \in Devices : \E i \in 1..Len(cycles[d]), c \in Contents \cup {NoFile} : SyncDownloadEnd(d, i, c)
  \/ \E d \in Devices : \E i \in 1..Len(cycles[d]), ok \in BOOLEAN : SyncDelete(d, i, ok)
  \/ \E d \in Devices : \E i \in 1..Len(cycles[d]) : SyncFinish(d, i)

Spec == Init /\ [][Next]_vars

SpecTwo == InitTwo /\ [][Next]_vars

\* ------------------------------------------------- the tree as a library
\* The Merkle tree's operations on their own: no client process runs; device
\* A's tree is built by operations, device B's tree is loaded from a snapshot.
\* editsLeft counts the operations to come, and now is the clock new Date()
\* reads.

\* The content hashes of the tree specification: two files' digests and the
\* digest of a file whose bytes are "empty".
TreeHashes == {"h1", "h2", SHA256Empty}

Stamps == 1..MaxStamp

SnapshotEntries ==
  [path : Paths, hash : {"h1", "h2"}, s3 : {0}, ts : Stamps]

\* The file lists of the snapshots a tree is loaded from, a path listed twice
\* included.
RECURSIVE listsUpTo(_)
listsUpTo(n) ==
  IF n = 0 THEN {<<>>}
  ELSE listsUpTo(n - 1)
       \cup {Append(l, e) : l \in {m \in listsUpTo(n - 1) : Len(m) = n - 1},
                            e \in SnapshotEntries}

Snapshots == {[rootHash |-> NullHash, files |-> l] : l \in listsUpTo(MaxSnapshot)}

InitTree ==
  \E data \in Snapshots :
     InitWith({}, [d \in Devices |-> IF d = "A" THEN MaxTreeOps ELSE 0],
              [d \in Devices |-> 0], 0,
              [d \in Devices |-> IF d = "A" THEN <<>> ELSE fromJSON(data)], 1)

\* merkleTree.addOrUpdateFile(p, metadata): the metadata of a new file carry
\* a timestamp or leave it to new Date(); an update always reads the clock.
TreeUpsert(d, p, h, s3, ts) ==
  /\ active = {} /\ editsLeft[d] > 0
  /\ IF Has(tree[d], p) \/ ts = 0
     THEN /\ ts = 0
          /\ tree' = [tree EXCEPT ![d] = addOrUpdateFile(@, p, h, s3, now[d])]
          /\ now' = [now EXCEPT ![d] = @ + 1]
     ELSE /\ tree' = [tree EXCEPT ![d] = addOrUpdateFile(@, p, h, s3, ts)]
          /\ UNCHANGED now
  /\ editsLeft' = [editsLeft EXCEPT ![d] = @ - 1]
  /\ UNCHANGED <<active, cycleCap, disk, written, watcherEvents, uploadQueue, drainTimers,
                 isProcessing, drains, downloadingFiles, recentlyDownloaded,
                 expiryTimers, cycles, lastSyncAt, merkle_trees, files, uploadLog,
                 faultsLeft>>

\* merkleTree.updateS3Url(p, s3Url)
TreeUpdateS3(d, p, s3) ==
  /\ active = {} /\ editsLeft[d] > 0
  /\ tree' = [tree EXCEPT ![d] = updateS3Url(@, p, s3, now[d])]
  /\ now' = [now EXCEPT ![d] = IF Has(tree[d], p) THEN @ + 1 ELSE @]
  /\ editsLeft' = [editsLeft EXCEPT ![d] = @ - 1]
  /\ UNCHANGED <<active, cycleCap, disk, written, watcherEvents, uploadQueue, drainTimers,
                 isProcessing, drains, downloadingFiles, recentlyDownloaded,
                 expiryTimers, cycles, lastSyncAt, merkle_trees, files, uploadLog,
                 faultsLeft>>

\* merkleTree.removeFile(p)
TreeRemove(d, p) ==
  /\ active = {} /\ editsLeft[d] > 0
  /\ tree' = [tree EXCEPT ![d] = removeFile(@, p)]
  /\ editsLeft' = [editsLeft EXCEPT ![d] = @ - 1]
  /\ UNCHANGED <<active, cycleCap, disk, written, watcherEvents, uploadQueue, drainTimers,
                 isProcessing, drains, downloadingFiles, recentlyDownloaded,
                 expiryTimers, cycles, lastSyncAt, merkle_trees, files, uploadLog,
                 now, faultsLeft>>

\* merkleTree.fromJSON(data) with the snapshot another tree (or the tree
\* itself) exported: saveMerkleTree followed by loadMerkleTree.
TreeLoad(d, e) ==
  /\ active = {} /\ editsLeft[d] > 0
  /\ tree' = [tree EXCEPT ![d] = fromJSON(toJSON(tree[e]))]
  /\ editsLeft' = [editsLeft EXCEPT ![d] = @ - 1]
  /\ UNCHANGED <<active, cycleCap, disk, written, watcherEvents, uploadQueue, drainTimers,
                 isProcessing, drains, downloadingFiles, recentlyDownloaded,
                 expiryTimers, cycles, lastSyncAt, merkle_trees, files, uploadLog,
                 now, faultsLeft>>

NextTree ==
  \/ \E d \in Devices, p \in Paths, h \in TreeHashes, ts \in {0} \cup Stamps :
        TreeUpsert(d, p, h, 0, ts)
  \/ \E d \in Devices, p \in Paths : TreeUpdateS3(d, p, 1)
  \/ \E d \in Devices, p \in Paths : TreeRemove(d, p)
  \/ \E d, e \in Devices : TreeLoad(d, e)

SpecTree == InitTree /\ [][NextTree]_vars

\* ------------------------------------------------------------- properties
\* What a sync cycle of device d would do if it ran on the current state:
\* nothing, when no entry of its download list is fetched and its deleted
\* list is empty.
NoOpCycle(d) ==
  LET diff == serverDiff(storedTreeFor(merkle_trees, d), files, toJSON(tree[d]))
      dl == filesToDownload(diff)
  IN /\ diff.deleted = <<>>
     /\ \A k \in 1..Len(dl) : ~fetches(d, dl[k])

\* Device d holds content with hash h at path p, on disk and in its tree.
Holds(dk, tr, p, h) ==
  /\ dk[p] # NoFile /\ calculateFileHash(dk[p]) = h
  /\ Has(tr, p) /\ getFile(tr, p).hash = h

\* Nothing is pending on device d: no edit to come, no event, no queued or
\* running upload, no timer, no running cycle.
Quiet(d) ==
  /\ editsLeft[d] = 0 /\ watcherEvents[d] = <<>>
  /\ uploadQueue[d] = <<>> /\ drains[d] = <<>> /\ drainTimers[d] = 0
  /\ cycles[d] = <<>> /\ downloadingFiles[d] = {}
  /\ \A p \in Paths : expiryTimers[d][p] = 0

\* C1: once device a has uploaded p with hash h and its tree update holding
\* p was accepted, a sync cycle of another device b that starts afterwards and
\* completes leaves b with the file p of hash h and a tree entry for p with h.
C1_CrossDeviceUpload ==
  [][\A a \in Devices, b \in Devices, p \in Paths :
       (/\ a # b /\ b \in active
        /\ Len(merkle_trees[a]) = 1 /\ Has(merkle_trees[a][1].files, p)
        /\ getFile(merkle_trees[a][1].files, p).s3 # 0
        /\ activeByHash(files, getFile(merkle_trees[a][1].files, p).hash) # {}
        /\ SyncStart(b, TRUE) /\ cycles'[b] = cycles[b])
       => Holds(disk'[b], tree'[b], p, getFile(merkle_trees[a][1].files, p).hash)]_vars

\* C2: once p was deleted on device a and the deletion reached the server
\* (the record of its hash deleted, a's stored tree without p), a sync cycle
\* of another device b that holds p, starting afterwards, removes p from b's
\* disk and from b's tree.
C2_CrossDeviceDelete ==
  [][\A a \in Devices, b \in Devices, p \in Paths :
       (/\ a # b /\ b \in active
        /\ disk[a][p] = NoFile /\ written[a][p] = "user" /\ watcherEvents[a] = <<>>
        /\ ~Has(tree[a], p)
        /\ Len(merkle_trees[a]) = 1 /\ ~Has(merkle_trees[a][1].files, p)
        /\ disk[b][p] # NoFile
        /\ Holds(disk[b], tree[b], p, calculateFileHash(disk[b][p]))
        /\ activeByHash(files, calculateFileHash(disk[b][p])) = {}
        /\ \E k \in 1..Len(files) : files[k].hash = calculateFileHash(disk[b][p])
        /\ SyncStart(b, TRUE) /\ cycles'[b] = cycles[b])
       => disk'[b][p] = NoFile /\ ~Has(tree'[b], p)]_vars

\* An add/change event of device d is handled in this step.
HandlesWrite(d) ==
  /\ watcherEvents[d] # <<>>
  /\ Head(watcherEvents[d]).type \in {"add", "change"}
  /\ watcherEvents'[d] = Tail(watcherEvents[d])

\* C3 as stated: with a record (p, H) from markDownloadComplete, an event for
\* p whose hash is H is discarded (tree and queue untouched) and one whose
\* hash differs is not (tree upserted to the new hash, p queued).
C3_EchoSuppression_Stated ==
  [][\A d \in Devices :
       (HandlesWrite(d) /\ Has(recentlyDownloaded[d], Head(watcherEvents[d]).path))
       => LET p == Head(watcherEvents[d]).path
              currentHash == calculateFileHash(disk[d][p])
          IN IF currentHash = getFile(recentlyDownloaded[d], p).hash
             THEN UNCHANGED <<tree, uploadQueue, drainTimers>>
             ELSE /\ Has(tree'[d], p) /\ getFile(tree'[d], p).hash = currentHash
                  /\ Has(uploadQueue'[d], p)]_vars

\* C3: with a record (p, H) from markDownloadComplete, an event for p whose
\* hash is H is discarded (tree and queue untouched); one whose hash differs,
\* for a file that can be read and a path not in the downloading set, is not
\* suppressed: the tree is upserted to the new hash and p is queued.
C3_EchoSuppression ==
  [][\A d \in Devices :
       (HandlesWrite(d) /\ Has(recentlyDownloaded[d], Head(watcherEvents[d]).path))
       => LET p == Head(watcherEvents[d]).path
              currentHash == calculateFileHash(disk[d][p])
          IN IF currentHash = getFile(recentlyDownloaded[d], p).hash
             THEN UNCHANGED <<tree, uploadQueue, drainTimers>>
             ELSE (currentHash # Null /\ p \notin downloadingFiles[d])
                  => /\ Has(tree'[d], p) /\ getFile(tree'[d], p).hash = currentHash
                     /\ getFile(tree'[d], p).s3 = 0
                     /\ Has(uploadQueue'[d], p)
                     /\ drainTimers'[d] = drainTimers[d] + 1]_vars

\* The echo of a download was handled and discarded: the file written by the
\* sync cycle matches its record, no event is left, and the tree entry still
\* carries the download's URL while nothing was queued or uploaded.
C3_Witness ==
  \E d \in Devices, p \in Paths :
     /\ written[d][p] = "sync" /\ disk[d][p] # NoFile
     /\ watcherEvents[d] = <<>> /\ p \notin downloadingFiles[d]
     /\ sameAsDownloaded(recentlyDownloaded[d], p, calculateFileHash(disk[d][p]))
     /\ Has(tree[d], p) /\ getFile(tree[d], p).s3 # 0
     /\ ~Has(uploadQueue[d], p) /\ drains[d] = <<>> /\ drainTimers[d] = 0

\* C4: an upload of p is never invoked while the last write to p was made by
\* a sync cycle: after a download (or a sync deletion) p is uploaded again
\* only if the user changed it afterwards.
C4_NoUploadAfterDownload ==
  [][\A d \in Devices :
       Len(uploadLog'[d]) > Len(uploadLog[d])
       => written[d][uploadLog'[d][Len(uploadLog'[d])].path] # "sync"]_vars

\* C5: a download whose bytes do not have the declared hash is rejected: the
\* tree is left as it was and no record with the declared hash is created.
C5_IntegrityCheck ==
  [][\A d \in Devices : \A i \in 1..Len(cycles[d]), c \in Contents :
       (SyncDownloadEnd(d, i, c)
        /\ calculateFileHash(c) # Head(cycles[d][i].downloads).hash)
       => LET f == Head(cycles[d][i].downloads)
          IN /\ tree'[d] = tree[d]
             /\ ~sameAsDownloaded(recentlyDownloaded'[d], f.path, f.hash)]_vars

\* C6: at most one sync cycle of a device is running at any time.
C6_NoOverlap == \A d \in Devices : Len(cycles[d]) <= 1

\* C7: at most one drain of a device's upload queue runs at a time, and a
\* trigger that fires while a drain runs uploads nothing, removes nothing
\* from the queue and starts nothing.
C7_SingleFlight ==
  /\ [](\A d \in Devices : Len(drains[d]) <= 1)
  /\ [][\A d \in Devices :
          (DrainTrigger(d) /\ drains[d] # <<>>)
          => UNCHANGED <<uploadQueue, uploadLog, drains, files>>]_vars

\* A trigger fired during a drain and returned: a drain is running, a job is
\* queued and no timer is left to fire.
C7_Witness ==
  \E d \in Devices :
     drains[d] # <<>> /\ uploadQueue[d] # <<>> /\ drainTimers[d] = 0

C9_Convergence ==
  \A d \in active :
     (Quiet(d) /\ faultsLeft = MaxFaults /\ lastSyncAt[d] # 0 /\ NoOpCycle(d))
     => serverDiff(storedTreeFor(merkle_trees, d), files, toJSON(tree[d])) = NoDifferences

\* Cycle i of device d has worked through both of its lists: it completes
\* with its next step, which only sets lastSyncAt.
Completed(d, i) ==
  /\ ~cycles[d][i].busy
  /\ cycles[d][i].downloads = <<>> /\ cycles[d][i].deleted = <<>>

C11_Dedup ==
  [][\A d \in Devices : \A i \in 1..Len(drains[d]) :
       (/\ DrainItem(d, i, TRUE)
        /\ uploadLog'[d] # uploadLog[d]
        /\ existingFile(files, disk[d][Head(drains[d][i].files).path]) # {})
       => /\ files' = files
          /\ drains'[d][i].pc = "uploaded"
          /\ drains'[d][i].s3 \in
               existingFile(files, disk[d][Head(drains[d][i].files).path])]_vars

\* The same content was uploaded a second time under another path and the
\* request was answered with the one record there is.
C11_Witness ==
  \E d \in Devices :
     /\ Len(uploadLog[d]) = 2 /\ Len(files) = 1 /\ files[1].active
     /\ uploadLog[d][1].hash = uploadLog[d][2].hash
     /\ uploadLog[d][1].path # uploadLog[d][2].path
     /\ Len(drains[d]) = 1 /\ drains[d][1].pc = "uploaded" /\ drains[d][1].s3 = 1

\* C12: at most one active file record exists for a content hash of the
\* user, whatever the interleaving of uploads.
C12_UniqueContent ==
  \A h \in {calculateFileHash(c) : c \in Contents} :
     Cardinality(activeByHash(files, h)) <= 1

\* The version of device d's stored tree (0: none stored).
storedVersion(mt, d) ==
  IF existingTree(mt, d) = <<>> THEN 0
  ELSE Max({existingTree(mt, d)[k].version : k \in 1..Len(existingTree(mt, d))})

\* C13: every accepted tree update of a device leaves what is stored for the
\* device equal to the supplied snapshot and root hash, whatever was stored
\* before, with the version one higher than before (1 after the first).
C13_VersionedReplace ==
  [][\A d \in Devices :
       merkle_trees'[d] # merkle_trees[d]
       => \E treeData \in {toJSON(tree'[d])}
                          \cup {drains[d][i].treeData : i \in
                                  {j \in 1..Len(drains[d]) : drains[d][j].pc = "updating"}} :
             \A k \in 1..Len(merkle_trees'[d]) :
                /\ merkle_trees'[d][k].files = treeData.files
                /\ merkle_trees'[d][k].rootHash = treeData.rootHash
                /\ merkle_trees'[d][k].version = storedVersion(merkle_trees, d) + 1]_vars

\* C14 as stated: for a device without a stored tree the diff handler's
\* result is the shared diff with an empty tree as mine and the caller's
\* snapshot as theirs.
C14_NoStoredTree_Stated ==
  \A d \in Devices :
     existingTree(merkle_trees, d) = <<>>
     => differencesFor(storedTreeFor(merkle_trees, d), toJSON(tree[d]))
        = getDifferences(serverFromJSON(<<>>), serverFromJSON(toJSON(tree[d]).files))

\* C14: for a device without a stored tree the diff handler returns empty
\* added, modified and deleted lists whatever the caller's snapshot holds, and
\* the sync cycle that asked completes at once.
C14_NoStoredTree ==
  [][\A d \in Devices :
       (SyncStart(d, TRUE) /\ existingTree(merkle_trees, d) = <<>>)
       => /\ serverDiff(storedTreeFor(merkle_trees, d), files, toJSON(tree[d])) = NoDifferences
          /\ cycles'[d] = cycles[d]
          /\ lastSyncAt'[d] = now[d]]_vars

\* A device that tracks a file and has no stored tree has completed a cycle.
C14_Witness ==
  \E d \in Devices :
     /\ existingTree(merkle_trees, d) = <<>> /\ tree[d] # <<>>
     /\ lastSyncAt[d] # 0 /\ cycles[d] = <<>>
     /\ \A p \in Paths : Has(tree[d], p) => disk[d][p] # NoFile

\* C15: a tree rebuilt from the snapshot of a tree has the root hash of that
\* tree.
C15_RoundTrip ==
  \A d \in Devices :
     getRootHash(fromJSON(toJSON(tree[d]))) = getRootHash(tree[d])

\* The set of file entries a tree holds.
entriesOf(t) == {getAllFiles(t)[i] : i \in 1..Len(t)}

\* C16: two trees that hold the same set of file entries have the same root
\* hash, however each was built.
C16_RootDeterminism ==
  \A d, e \in Devices :
     entriesOf(tree[d]) = entriesOf(tree[e])
     => getRootHash(tree[d]) = getRootHash(tree[e])

\* C17: an upsert of a tracked path with another content hash changes the
\* leaf's node hash and the root hash, and the path is in modified when the
\* new tree is diffed against the tree before the change.
C17_ContentChange ==
  [][\A d \in Devices, p \in Paths, h \in TreeHashes :
       (/\ TreeUpsert(d, p, h, 0, 0)
        /\ Has(tree[d], p) /\ getFile(tree[d], p).hash # h)
       => /\ getFile(tree'[d], p).node # getFile(tree[d], p).node
          /\ getRootHash(tree'[d]) # getRootHash(tree[d])
          /\ \E k \in 1..Len(clientGetDifferences(tree'[d], tree[d]).modified) :
                clientGetDifferences(tree'[d], tree[d]).modified[k].path = p]_vars

\* The server's diff of two client trees, each sent as its snapshot.
serverGetDifferences(a, b) ==
  getDifferences(serverFromJSON(toJSON(a).files), serverFromJSON(toJSON(b).files))

\* C18: the diff of a tree with itself has empty added, modified and deleted
\* lists, in the client's and in the server's diff.
C18_DiffReflexive ==
  \A d \in Devices :
     /\ clientGetDifferences(tree[d], tree[d]) = NoDifferences
     /\ serverGetDifferences(tree[d], tree[d]) = NoDifferences

\* A tree of two leaves, one created and one updated since, is diffed.
C18_Witness ==
  \E d \in Devices :
     /\ Len(tree[d]) = 2 /\ editsLeft[d] = 0
     /\ tree[d][1].node # tree[d][2].node
     /\ tree[d][1].ts # tree[d][2].ts

\* Every entry of tree b is an entry of tree a, unchanged.
Extends(a, b) == entriesOf(b) \subseteq entriesOf(a)

\* The entries of tree a under paths that tree b does not hold, in a's order.
extraEntries(a, b) ==
  LET Extra(f) == ~Has(b, f.path) IN SelectSeq(getAllFiles(a), Extra)

\* C19: when a holds every entry of b unchanged plus entries under other
\* paths, diff(a, b) has exactly those extra entries in added and nothing in
\* modified and deleted.
C19_DiffAdded ==
  \A d, e \in Devices :
     Extends(tree[d], tree[e])
     => /\ clientGetDifferences(tree[d], tree[e])
           = [added |-> extraEntries(tree[d], tree[e]), modified |-> <<>>, deleted |-> <<>>]
        /\ serverGetDifferences(tree[d], tree[e])
           = [added |-> extraEntries(tree[d], tree[e]), modified |-> <<>>, deleted |-> <<>>]

\* Tree A holds tree B's one entry and one more.
C19_Witness ==
  /\ Len(tree["B"]) = 1 /\ Len(tree["A"]) = 2
  /\ Extends(tree["A"], tree["B"])
  /\ Len(clientGetDifferences(tree["A"], tree["B"]).added) = 1

\* C20: the deleted list of diff(a, b) holds exactly the entries of b whose
\* path a does not hold; after removeFile(p) on a, an entry of b under p is in
\* the deleted list.
C20_DiffDeleted ==
  [][\A d, e \in Devices :
       /\ clientGetDifferences(tree'[d], tree'[e]).deleted = extraEntries(tree'[e], tree'[d])
       /\ serverGetDifferences(tree'[d], tree'[e]).deleted = extraEntries(tree'[e], tree'[d])
       /\ \A p \in Paths :
            (TreeRemove(d, p) /\ d # e /\ Has(tree[e], p))
            => /\ \E k \in 1..Len(clientGetDifferences(tree'[d], tree'[e]).deleted) :
                     clientGetDifferences(tree'[d], tree'[e]).deleted[k].path = p
               /\ \E k \in 1..Len(serverGetDifferences(tree'[d], tree'[e]).deleted) :
                     serverGetDifferences(tree'[d], tree'[e]).deleted[k].path = p]_vars

\* Tree A held both paths of tree B and has removed one of them.
C20_Witness ==
  /\ Len(tree["B"]) = 2 /\ Len(tree["A"]) = 1 /\ editsLeft["A"] = 0
  /\ Len(clientGetDifferences(tree["A"], tree["B"]).deleted) = 1
  /\ clientGetDifferences(tree["A"], tree["B"]).added = <<>>

\* ------------------------------------------------ unsynced local work
\* Path p of device d holds content the user wrote that the server has not
\* taken yet: it waits in the upload queue or in the batch of a running drain.
Unsynced(d, p) ==
  /\ disk[d][p] # NoFile /\ written[d][p] = "user"
  /\ Has(tree[d], p)
  /\ \/ Has(uploadQueue[d], p)
     \/ \E i \in 1..Len(drains[d]) : Has(drains[d][i].files, p)

\* C21: a sync cycle never deletes from disk, nor removes from the local tree,
\* a file that was created or modified locally and whose upload is still
\* queued or in flight.
C21_NoLostWork ==
  [][\A d \in Devices : \A i \in 1..Len(cycles[d]) :
        SyncDelete(d, i, TRUE) => ~Unsynced(d, Head(cycles[d][i].deleted).path)]_vars

\* -------------------------------------------------------- leaf node hashes
\* C22: in every reachable tree, every leaf node's hash is the content hash
\* of the entry it wraps, and a single-leaf tree's root hash is that entry's
\* content hash.
C22_LeafHash ==
  \A d \in Devices :
     /\ \A i \in 1..Len(tree[d]) : tree[d][i].node = <<tree[d][i].hash>>
     /\ Len(tree[d]) = 1 => getRootHash(tree[d]) = <<tree[d][1].hash>>

\* --------------------------------------------- events during a download
\* The head event of device d is consumed in this step, whatever its type.
HandlesEvent(d) ==
  /\ watcherEvents[d] # <<>>
  /\ watcherEvents'[d] = Tail(watcherEvents[d])

\* C23: while p is in the downloading set, every filesystem event for p (add,
\* change or unlink) is dropped: the local tree, the upload queue with its
\* triggers, and the server's stored trees and file records stay unchanged,
\* and nothing is uploaded.
C23_DownloadingIgnored ==
  [][\A d \in Devices :
       (HandlesEvent(d) /\ Head(watcherEvents[d]).path \in downloadingFiles[d])
       => UNCHANGED <<tree, uploadQueue, drainTimers, merkle_trees, files, uploadLog>>]_vars

\* An event for p was dropped while p is being downloaded: the file on disk
\* differs from the tree's entry, no event for p is left, nothing is queued
\* for p, and p is still in the downloading set.
C23_Witness ==
  \E d \in Devices, p \in Paths :
     /\ p \in downloadingFiles[d]
     /\ \A k \in 1..Len(watcherEvents[d]) : watcherEvents[d][k].path # p
     /\ disk[d][p] # NoFile /\ Has(tree[d], p)
     /\ getFile(tree[d], p).hash # calculateFileHash(disk[d][p])
     /\ ~Has(uploadQueue[d], p)

\* ------------------------------------------------ progress of the client
\* One device whose timers fire and whose awaited requests return: every
\* pending watcher event is delivered, every setTimeout callback runs, every
\* started drain and sync cycle takes its next step, and setInterval keeps
\* starting cycles.  The user's edits are not forced.
InitLive == InitWith({"A"}, [d \in Devices |-> IF d = "A" THEN MaxEdits ELSE 0],
                     [d \in Devices |-> 1], MaxFaults, [d \in Devices |-> <<>>], 1)

Fairness ==
  \A d \in Devices :
     /\ WF_vars(HandleWrite(d))
     /\ WF_vars(\E deleteOk, updateOk \in BOOLEAN : HandleUnlink(d, deleteOk, updateOk))
     /\ WF_vars(DrainTrigger(d))
     /\ WF_vars(\E i \in 1..Len(drains[d]), ok \in BOOLEAN : DrainItem(d, i, ok))
     /\ WF_vars(\E i \in 1..Len(drains[d]) : UploadInsert(d, i))
     /\ WF_vars(\E i \in 1..Len(drains[d]), ok \in BOOLEAN : DrainApply(d, i, ok))
     /\ WF_vars(\E i \in 1..Len(drains[d]) : UpdateInsert(d, i))
     /\ WF_vars(\E i \in 1..Len(drains[d]) : DrainFinish(d, i))
     /\ \A p \in Paths : WF_vars(\E late \in BOOLEAN : ExpireTimer(d, p, late))
     /\ WF_vars(\E ok \in BOOLEAN : SyncStart(d, ok))
     /\ WF_vars(\E i \in 1..Len(cycles[d]) : SyncDownload(d, i))
     /\ WF_vars(\E i \in 1..Len(cycles[d]), c \in Contents \cup {NoFile} : SyncDownloadEnd(d, i, c))
     /\ WF_vars(\E i \in 1..Len(cycles[d]), ok \in BOOLEAN : SyncDelete(d, i, ok))
     /\ WF_vars(\E i \in 1..Len(cycles[d]) : SyncFinish(d, i))

SpecLive == InitLive /\ [][Next]_vars /\ Fairness

\* The clock of device d has readings left: the behaviour has not run into
\* the bound MaxClock, which stops every step that reads the clock.
ClockLeft(d) == now[d] < MaxClock

\* C24: no recently-downloaded record stays in the map forever: in every
\* behaviour that keeps clock readings, a path's record is absent again and
\* again.
C24_RecordsExpire ==
  \A d \in Devices, p \in Paths :
     []<>(~Has(recentlyDownloaded[d], p) \/ ~ClockLeft(d))

\* C25: queued work is never stranded: a path in the upload queue (put there
\* while a drain was active or not) is taken by a drain sooner or later, in
\* every behaviour that keeps clock readings, without further user edits.
C25_NoStrandedWork ==
  \A d \in Devices, p \in Paths :
     []<>(~Has(uploadQueue[d], p) \/ ~ClockLeft(d))

\* The last api.uploadFile call of device d was for p and failed, and p still
\* holds the user's content that the call tried to send.
FailedLast(d, p) ==
  /\ uploadLog[d] # <<>>
  /\ uploadLog[d][Len(uploadLog[d])].path = p
  /\ ~uploadLog[d][Len(uploadLog[d])].ok
  /\ disk[d][p] # NoFile /\ written[d][p] = "user"

\* C26: a failed upload is attempted again later without a new filesystem
\* event: in every behaviour that keeps clock readings, the device does not
\* stay for ever in a state where its last upload call was a failed one for a
\* file that is still there.
C26_FailedUploadRetried ==
  \A d \in Devices, p \in Paths : []<>(~FailedLast(d, p) \/ ~ClockLeft(d))

\* -------------------------------------------------- per-item failures
\* The tree a device sent with its last update after it had uploaded p (first
\* content) and q (second content).
SyncedTree ==
  LET t1 == updateS3Url(addOrUpdateFile(<<>>, "p", "h1", 0, 1), "p", 1, 1)
  IN updateS3Url(addOrUpdateFile(t1, "q", "h2", 0, 1), "q", 2, 1)

\* The tree of a device whose watcher has handled the user's new files p and
\* q, and the upload jobs queued for them.
HandledTree == addOrUpdateFile(addOrUpdateFile(<<>>, "p", "h1", 0, 1), "q", "h2", 0, 1)

HandledQueue == queueUpload(queueUpload(<<>>, "p", "h1"), "q", "h2")

\* One client, one cycle at a time, faults injected, from one of three
\* starts that give batches of two items:
\*  "fresh":    nothing on the server; the user's edits are still to come;
\*  "restored": the device's directory and tree file were lost while the
\*              server holds its tree and its two uploaded files
\*              (loadMerkleTree starts an empty tree): two downloads;
\*  "queued":   the server holds an empty tree of the device, and the user's
\*              new files p and q were handled and wait in the upload queue
\*              with their two triggers: a drain of two files, and a cycle
\*              that lists both as deleted; its clock has two readings left.
InitBatch ==
  \E start \in {"fresh", "restored", "queued"} :
     /\ active = {"A"}
     /\ cycleCap = [d \in Devices |-> 1]
     /\ disk = [d \in Devices |-> [p \in Paths |->
           IF start = "queued" /\ d = "A" THEN (IF p = "p" THEN "c1" ELSE "c2")
           ELSE NoFile]]
     /\ written = [d \in Devices |-> [p \in Paths |->
           IF start = "queued" /\ d = "A" THEN "user" ELSE "none"]]
     /\ tree = [d \in Devices |->
           IF start = "queued" /\ d = "A" THEN HandledTree ELSE <<>>]
     /\ watcherEvents = [d \in Devices |-> <<>>]
     /\ uploadQueue = [d \in Devices |->
           IF start = "queued" /\ d = "A" THEN HandledQueue ELSE <<>>]
     /\ drainTimers = [d \in Devices |->
           IF start = "queued" /\ d = "A" THEN 2 ELSE 0]
     /\ isProcessing = [d \in Devices |-> FALSE]
     /\ drains = [d \in Devices |-> <<>>]
     /\ downloadingFiles = [d \in Devices |-> {}]
     /\ recentlyDownloaded = [d \in Devices |-> <<>>]
     /\ expiryTimers = [d \in Devices |-> [p \in Paths |-> 0]]
     /\ cycles = [d \in Devices |-> <<>>]
     /\ lastSyncAt = [d \in Devices |-> 0]
     /\ merkle_trees =
           IF start = "fresh" THEN [d \in Devices |-> <<>>]
           ELSE insertTree([d \in Devices |-> <<>>], "A",
                           toJSON(IF start = "restored" THEN SyncedTree ELSE <<>>), 1)
     /\ files = IF start = "restored" THEN insertFile(insertFile(<<>>, "c1"), "c2")
                ELSE <<>>
     /\ uploadLog = [d \in Devices |-> <<>>]
     /\ now = [d \in Devices |-> IF start = "queued" THEN MaxClock - 2 ELSE 2]
     /\ faultsLeft = MaxFaults
     /\ editsLeft = [d \in Devices |->
           IF start = "fresh" /\ d = "A" THEN MaxEdits ELSE 0]

SpecBatch == InitBatch /\ [][Next]_vars

\* C27: when one item of a batch fails, the failure is caught and the rest of
\* the batch is still to be processed: a failed upload or a failed tree
\* update leaves the drain running on the remaining files, a failed download
\* leaves the cycle with its remaining downloads and its whole deletion list,
\* and a failed deletion leaves the cycle with its remaining deletions.
C27_FailureIsolation ==
  [][\A d \in Devices :
       /\ \A i \in 1..Len(drains[d]) :
             (DrainItem(d, i, FALSE) \/ DrainApply(d, i, FALSE))
             => /\ Len(drains'[d]) = Len(drains[d])
                /\ drains'[d][i].files = Tail(drains[d][i].files)
                /\ drains'[d][i].pc = "next"
                /\ isProcessing'[d]
       /\ \A i \in 1..Len(cycles[d]) :
             /\ SyncDownloadEnd(d, i, NoFile)
                => /\ Len(cycles'[d]) = Len(cycles[d])
                   /\ cycles'[d][i].downloads = Tail(cycles[d][i].downloads)
                   /\ cycles'[d][i].deleted = cycles[d][i].deleted
                   /\ ~cycles'[d][i].busy
                   /\ Head(cycles[d][i].downloads).path \notin downloadingFiles'[d]
             /\ SyncDelete(d, i, FALSE)
                => /\ Len(cycles'[d]) = Len(cycles[d])
                   /\ cycles'[d][i].deleted = Tail(cycles[d][i].deleted)
                   /\ ~cycles'[d][i].busy]_vars

\* The first cycle of a restored device had two downloads; the first failed
\* (its record carries no hash) and the second was made all the same: its
\* file is on disk and in the tree, before any cycle has completed.
C27_Witness ==
  \E d \in Devices, p, q \in Paths :
     /\ p # q /\ lastSyncAt[d] = 0 /\ uploadLog[d] = <<>>
     /\ Has(recentlyDownloaded[d], p) /\ getFile(recentlyDownloaded[d], p).hash = Null
     /\ disk[d][p] = NoFile /\ ~Has(tree[d], p)
     /\ written[d][q] = "sync" /\ disk[d][q] # NoFile /\ Has(tree[d], q)

\* ------------------------------------------------- one tree per device
\* C28: whatever the interleaving of tree updates, the store holds at most
\* one tree record per device.
C28_OneTreePerDevice ==
  \A d \in Devices : Len(merkle_trees[d]) <= 1

\* --------------------------------------------- deletion by content hash
\* An unlink event of device d is handled in this step.
HandlesUnlink(d) ==
  /\ HandlesEvent(d)
  /\ Head(watcherEvents[d]).type = "unlink"

\* The content with hash h can be downloaded: an active record holds it.
Retrievable(fs, h) == activeByHash(fs, h) # {}

\* C29: when the local deletion of p is handled (with its remote deletion by
\* content hash), every other path q that some device tracks as uploaded and
\* whose content was retrievable keeps its tree entry and stays retrievable.
C29_DeleteByHashIsolated ==
  [][\A d \in Devices :
       HandlesUnlink(d)
       => \A e \in Devices, q \in Paths \ {Head(watcherEvents[d]).path} :
             (/\ Has(tree[e], q) /\ getFile(tree[e], q).s3 # 0
              /\ Retrievable(files, getFile(tree[e], q).hash))
             => /\ Has(tree'[e], q)
                /\ Retrievable(files', getFile(tree[e], q).hash)]_vars

\* ------------------------------------------------------- local deletion
\* C30: when an unlink event for a tracked path p that is not in the
\* downloading set is handled, p's entry leaves the local tree and the other
\* entries stay, whether the remote deletion by hash succeeds, fails or finds
\* no record.
C30_LocalDeletionApplied ==
  [][\A d \in Devices :
       (/\ HandlesUnlink(d)
        /\ Has(tree[d], Head(watcherEvents[d]).path)
        /\ Head(watcherEvents[d]).path \notin downloadingFiles[d])
       => tree'[d] = removeFile(tree[d], Head(watcherEvents[d]).path)]_vars

\* The user created and deleted p, both events were handled and no sync
\* cycle has touched the tree; the remote deletion did not succeed (the
\* record of p's content is still active) and p's entry is gone all the same.
C30_Witness ==
  \E d \in Devices, p \in Paths :
     /\ editsLeft[d] = 0 /\ watcherEvents[d] = <<>>
     /\ lastSyncAt[d] = 0 /\ cycles[d] = <<>>
     /\ disk[d][p] = NoFile /\ written[d][p] = "user"
     /\ \A q \in Paths \ {p} : written[d][q] = "none"
     /\ tree[d] = <<>>
     /\ \E k \in 1..Len(files) : files[k].active

\* ------------------------------------------------------ blob references
\* No event for path p of device d is waiting for handleFileChange.
NoEventPending(d, p) ==
  \A k \in 1..Len(watcherEvents[d]) : watcherEvents[d][k].path # p

\* C31: a tree leaf with a blob reference has a reference that an upload of
\* content with the leaf's current hash returned: the record it points at
\* holds content of that hash.  Stated for leaves whose path has no event
\* waiting, so that a leaf about to be refreshed by the watcher is not counted.
C31_BlobReferenceMatches ==
  \A d \in Devices : \A i \in 1..Len(tree[d]) :
     (tree[d][i].s3 # 0 /\ NoEventPending(d, tree[d][i].path))
     => files[tree[d][i].s3].hash = tree[d][i].hash

\* ------------------------------------------------------- the drain flag
\* C32: every drain that starts finishes and sets isProcessing back to false,
\* also when uploads or tree updates fail: in every behaviour that keeps
\* clock readings the flag is down again and again, and whenever it is down
\* no drain is running.
C32_FlagReleased ==
  /\ \A d \in Devices : []<>(~isProcessing[d] \/ ~ClockLeft(d))
  /\ [](\A d \in Devices : ~isProcessing[d] <=> drains[d] = <<>>)

\* A drain whose first upload failed has finished: the flag is down and no
\* drain is running.
C32_Witness ==
  \E d \in Devices :
     /\ uploadLog[d] # <<>> /\ ~uploadLog[d][1].ok
     /\ ~isProcessing[d] /\ drains[d] = <<>>

\* --------------------------------------------------- the downloading set
\* C33: a path is in the downloading set only while a cycle's download of it
\* is in flight, so the set is empty whenever no cycle runs; the end of a
\* download, successful or failed, takes the path out of the set, and a
\* failed download leaves the local tree as it was.
C33_DownloadingCleanedUp ==
  /\ [](\A d \in Devices : \A p \in downloadingFiles[d] :
          \E i \in 1..Len(cycles[d]) :
             cycles[d][i].busy /\ Head(cycles[d][i].downloads).path = p)
  /\ [](\A d \in Devices : cycles[d] = <<>> => downloadingFiles[d] = {})
  /\ [][\A d \in Devices : \A i \in 1..Len(cycles[d]), c \in Contents \cup {NoFile} :
          SyncDownloadEnd(d, i, c)
          => /\ Head(cycles[d][i].downloads).path \notin downloadingFiles'[d]
             /\ c = NoFile => tree' = tree]_vars

\* A download failed (its record carries no hash), its cycle is over and the
\* downloading set is empty, with the path's tree entry still in place.
C33_Witness ==
  \E d \in Devices, p \in Paths :
     /\ Has(recentlyDownloaded[d], p) /\ getFile(recentlyDownloaded[d], p).hash = Null
     /\ cycles[d] = <<>> /\ downloadingFiles[d] = {}
     /\ Has(tree[d], p)

\* ------------------------------------------- deletions made by the cycle
\* Handling the head event of device d sends a delete-by-hash request:
\* handleLocalDeletion finds an entry for the path.
SendsDeleteByHash(d) ==
  /\ HandlesUnlink(d)
  /\ ~ignoresEvent(d, Head(watcherEvents[d]).path)
  /\ Has(tree[d], Head(watcherEvents[d]).path)

\* C34: the unlink event of a file that a sync cycle removed never makes the
\* device send a delete-by-hash request.
C34_SyncDeletionNoEcho ==
  [][\A d \in Devices :
       (HandlesUnlink(d) /\ Head(watcherEvents[d]).src = "sync")
       => ~SendsDeleteByHash(d)]_vars

\* ------------------------------------------------------ meaning of modified
\* The list holds an entry under path p.
Lists(list, p) == \E k \in 1..Len(list) : list[k].path = p

\* The diff lists path p nowhere.
Unlisted(diff, p) ==
  ~Lists(diff.added, p) /\ ~Lists(diff.modified, p) /\ ~Lists(diff.deleted, p)

\* The entries under a path that both trees hold differ in content hash or
\* in timestamp.
Differs(a, b, p) ==
  getFile(a, p).hash # getFile(b, p).hash \/ getFile(a, p).ts # getFile(b, p).ts

\* C35: an entry whose path both trees hold is in modified exactly when its
\* content hash or its timestamp differs, and is in no list when both are
\* equal; in the client's and in the server's diff.
C35_ModifiedMeaning ==
  \A d, e \in Devices : \A p \in Paths :
     (Has(tree[d], p) /\ Has(tree[e], p)) =>
        /\ Lists(clientGetDifferences(tree[d], tree[e]).modified, p)
             <=> Differs(tree[d], tree[e], p)
        /\ Lists(serverGetDifferences(tree[d], tree[e]).modified, p)
             <=> Differs(tree[d], tree[e], p)
        /\ ~Differs(tree[d], tree[e], p) =>
             /\ Unlisted(clientGetDifferences(tree[d], tree[e]), p)
             /\ Unlisted(serverGetDifferences(tree[d], tree[e]), p)

\* Two trees share both paths: one entry differs in its timestamp alone, the
\* other is equal in hash and timestamp.
C35_Witness ==
  \E p, q \in Paths :
     /\ Has(tree["A"], p) /\ Has(tree["B"], p)
     /\ getFile(tree["A"], p).hash = getFile(tree["B"], p).hash
     /\ getFile(tree["A"], p).ts # getFile(tree["B"], p).ts
     /\ Has(tree["A"], q) /\ Has(tree["B"], q)
     /\ ~Differs(tree["A"], tree["B"], q)

\* ------------------------------------------------- one diff engine, twice
\* The paths of a list of entries, in the list's order.
pathsIn(list) == [k \in 1..Len(list) |-> list[k].path]

\* The paths the three lists of a diff hold.
diffPaths(diff) ==
  [added |-> pathsIn(diff.added), modified |-> pathsIn(diff.modified),
   deleted |-> pathsIn(diff.deleted)]

\* The server's and the client's diff engine, each loading the two file lists
\* with its own fromJSON, report the same paths.
EnginesAgree(mine, theirs) ==
  diffPaths(getDifferences(serverFromJSON(mine), serverFromJSON(theirs)))
    = diffPaths(clientGetDifferences(fromJSON([files |-> mine]),
                                     fromJSON([files |-> theirs])))

\* File lists taken from the trees at hand: the export of each tree, and the
\* export of one followed by the other's, where a shared path is listed twice.
ExportedLists ==
  {getAllFiles(tree[d]) : d \in Devices}
    \cup {getAllFiles(tree[d]) \o getAllFiles(tree[e]) : d, e \in Devices}

\* C36: given the same two snapshots, the server's getDifferences and the
\* client's getDifferences return the same added, modified and deleted
\* paths, also when a snapshot lists a path twice.
C36_SameDiffEngine ==
  \A mine, theirs \in ExportedLists : EnginesAgree(mine, theirs)

\* Both trees hold a path with different hashes, so that a list made of both
\* exports names the path twice, and the other path is held by one tree only.
C36_Witness ==
  \E p, q \in Paths :
     /\ Has(tree["A"], p) /\ Has(tree["B"], p)
     /\ getFile(tree["A"], p).hash # getFile(tree["B"], p).hash
     /\ Has(tree["A"], q) /\ ~Has(tree["B"], q)

\* ---------------------------------------------------- the tree's nodes
\* A MerkleNode as the tree holds it: a leaf is named by its path and its
\* hash is read from the leaf itself; an internal node holds the hash its
\* constructor computed and its children.
leafNode(p) == [path |-> p, hash |-> NullHash, kids |-> <<>>]

\* this.root = null
NoRoot == [path |-> Null, hash |-> NullHash, kids |-> <<>>]

\* node.hash, with the leaves as they are now.
hashOf(n, t) == IF n.kids = <<>> THEN getFile(t, n.path).node ELSE n.hash

\* new MerkleNode(null, left, right): calculateHash digests the two
\* children's hashes, or takes the left child's hash when there is no right.
newMerkleNode(kids, t) ==
  [path |-> Null,
   hash |-> IF Len(kids) = 2
            THEN combinedHash(hashOf(kids[1], t), hashOf(kids[2], t))
            ELSE hashOf(kids[1], t),
   kids |-> kids]

\* One pass of rebuildTree's for loop: a parent per pair, and a parent with a
\* left child only for a last node without partner.
RECURSIVE parentsOf(_, _)
parentsOf(level, t) ==
  IF level = <<>> THEN <<>>
  ELSE IF Len(level) = 1 THEN <<newMerkleNode(<<level[1]>>, t)>>
  ELSE <<newMerkleNode(<<level[1], level[2]>>, t)>>
         \o parentsOf(SubSeq(level, 3, Len(level)), t)

\* rebuildTree's while loop.
RECURSIVE topOf(_, _)
topOf(level, t) == IF Len(level) = 1 THEN level[1] ELSE topOf(parentsOf(level, t), t)

\* MerkleTree.rebuildTree: the node left in this.root.
rebuildRoot(t) ==
  IF t = <<>> THEN NoRoot
  ELSE IF Len(t) = 1 THEN leafNode(t[1].path)
  ELSE topOf([i \in 1..Len(t) |-> leafNode(t[i].path)], t)

\* this.rebuildTree() at the end of an operation: root is the root before
\* the call, t the leaves at the call.
\* (variant: the call is left out)
rebuiltRoot_Skipped(root, t) == root

rebuiltRoot(root, t) == rebuildRoot(t)

\* this.root after addOrUpdateFile, updateS3Url, removeFile(p) and fromJSON,
\* given the root and the leaves before and the leaves after the operation.
rootAfterAddOrUpdateFile(root, after) == rebuiltRoot(root, after)

rootAfterUpdateS3Url(root, before, p, after) ==
  IF Has(before, p) THEN rebuiltRoot(root, after) ELSE root

\* (variant: removeFile deletes the leaf and returns)
rootAfterRemoveFile_NoRebuild(root, before, p, after) == root

rootAfterRemoveFile(root, before, p, after) ==
  IF Has(before, p) THEN rebuiltRoot(root, after) ELSE root

rootAfterFromJSON(root, after) == rebuiltRoot(root, after)

\* getRootHash: this.root ? this.root.hash : null
rootHashOf(root, t) == IF root = NoRoot THEN NullHash ELSE hashOf(root, t)

\* The paths of the leaves under a node, from left to right.
RECURSIVE leavesUnder(_)
leavesUnder(n) ==
  IF n = NoRoot THEN <<>>
  ELSE IF n.kids = <<>> THEN <<n.path>>
  ELSE IF Len(n.kids) = 1 THEN leavesUnder(n.kids[1])
  ELSE leavesUnder(n.kids[1]) \o leavesUnder(n.kids[2])

\* Trees of up to three leaves: with three, the third leaf has no partner.
NodePaths == Paths \cup {"r"}

NodeEntries(hs) ==
  <<[path |-> "p", hash |-> hs[1], s3 |-> 0, ts |-> 1],
    [path |-> "q", hash |-> hs[2], s3 |-> 0, ts |-> 1],
    [path |-> "r", hash |-> hs[3], s3 |-> 0, ts |-> 1]>>

NodeSnapshots ==
  {[rootHash |-> NullHash, files |-> SubSeq(NodeEntries(hs), 1, k)] :
     hs \in [1..Cardinality(NodePaths) -> {"h1", "h2"}],
     k \in 1..Cardinality(NodePaths)}

InitNodes ==
  \E data \in NodeSnapshots :
     InitWith({}, [d \in Devices |-> IF d = "A" THEN MaxTreeOps ELSE 0],
              [d \in Devices |-> 0], 0,
              [d \in Devices |-> IF d = "A" THEN fromJSON(data)
                                 ELSE fromJSON([files |-> <<NodeEntries(<<"h1", "h1", "h1">>)[3]>>])],
              2)

SpecNodes == InitNodes /\ [][NextTree]_vars

\* The root this.root holds after the step, when the step is one operation on
\* device d's tree and the root before it was the rebuilt one.
rootAfterStep(d) ==
  LET root == rebuildRoot(tree[d])
  IN IF \E p \in Paths, h \in TreeHashes, ts \in {0} \cup Stamps : TreeUpsert(d, p, h, 0, ts)
     THEN rootAfterAddOrUpdateFile(root, tree'[d])
     ELSE IF \E p \in Paths : TreeUpdateS3(d, p, 1) /\ Has(tree[d], p)
     THEN rootAfterUpdateS3Url(root, tree[d], (CHOOSE p \in Paths : TreeUpdateS3(d, p, 1) /\ Has(tree[d], p)), tree'[d])
     ELSE IF \E p \in Paths : TreeRemove(d, p) /\ Has(tree[d], p)
     THEN rootAfterRemoveFile(root, tree[d], (CHOOSE p \in Paths : TreeRemove(d, p) /\ Has(tree[d], p)), tree'[d])
     ELSE IF \E e \in Devices : TreeLoad(d, e)
     THEN rootAfterFromJSON(root, tree'[d])
     ELSE root

\* Every internal node under n has the hash of its children as they are now.
RECURSIVE WellHashed(_, _)
WellHashed(n, t) ==
  \/ n.kids = <<>>
  \/ /\ Len(n.kids) = 2
     /\ n.hash = combinedHash(hashOf(n.kids[1], t), hashOf(n.kids[2], t))
     /\ WellHashed(n.kids[1], t) /\ WellHashed(n.kids[2], t)
  \/ /\ Len(n.kids) = 1
     /\ n.hash = hashOf(n.kids[1], t)
     /\ WellHashed(n.kids[1], t)

\* C37: after every addOrUpdateFile, updateS3Url, removeFile and fromJSON,
\* the nodes under the root end in the tree's present leaves, every internal
\* node with two children has the digest of its children's current hashes,
\* and one with a single child has that child's hash.
C37_InternalNodeHash ==
  [][\A d \in Devices :
       /\ leavesUnder(rootAfterStep(d)) = pathsIn(tree'[d])
       /\ WellHashed(rootAfterStep(d), tree'[d])]_vars

\* A tree of three leaves, one of them updated since it was loaded: the root
\* has a two-child node and a single-child node below it.
C37_Witness ==
  /\ Len(tree["A"]) = 3
  /\ editsLeft["A"] < MaxTreeOps
  /\ \E i \in 1..3 : tree["A"][i].node # <<SHA256Empty>>
  /\ Len(rebuildRoot(tree["A"]).kids) = 2
  /\ Len(rebuildRoot(tree["A"]).kids[2].kids) = 1

\* C38: after every tree operation, getRootHash() is null exactly when the
\* tree holds no entries, the root of a single-entry tree is that entry's
\* leaf, and the leaves under the root are the entries of the path index; the
\* root hash is the one the snapshot export reports.
C38_RootMatchesIndex ==
  [][\A d \in Devices :
       /\ leavesUnder(rootAfterStep(d)) = pathsIn(tree'[d])
       /\ rootHashOf(rootAfterStep(d), tree'[d]) = NullHash <=> tree'[d] = <<>>
       /\ Len(tree'[d]) = 1 => rootAfterStep(d) = leafNode(tree'[d][1].path)
       /\ rootHashOf(rootAfterStep(d), tree'[d]) = getRootHash(tree'[d])]_vars

\* The last entry of a tree has been removed.
C38_Witness ==
  /\ tree["A"] = <<>>
  /\ editsLeft["A"] < MaxTreeOps
  /\ rootHashOf(rebuildRoot(tree["A"]), tree["A"]) = NullHash

\* ------------------------------------------------ stored trees per device
\* The step is one of device d's watcher or of its drain: the steps in which
\* d's update-tree requests are sent and served (after a local deletion, and
\* after an upload of the drain).
ServesUpdate(d) ==
  \/ watcherEvents[d] # <<>> /\ watcherEvents'[d] = Tail(watcherEvents[d])
  \/ drains'[d] # drains[d]

\* The step is the start of a sync cycle of device d: its diff request is
\* sent and answered, with differences (a cycle record is added) or without
\* (the time of the last sync is set).
ServesDiff(d) == Len(cycles'[d]) > Len(cycles[d]) \/ lastSyncAt'[d] # lastSyncAt[d]

\* C39: an update-tree or diff request of one device leaves the stored
\* snapshot, root hash and version of every other device as they are, and a
\* diff request changes no stored tree.
C39_StoredTreesIsolated ==
  [][\A d \in Devices :
       /\ ServesUpdate(d) =>
            \A e \in Devices \ {d} : merkle_trees'[e] = merkle_trees[e]
       /\ ServesDiff(d) => merkle_trees' = merkle_trees]_vars

\* Both devices have a stored tree, the two differ, and one of them has been
\* replaced by an UPDATE.
C39_Witness ==
  /\ merkle_trees["A"] # <<>> /\ merkle_trees["B"] # <<>>
  /\ merkle_trees["A"][1].files # merkle_trees["B"][1].files
  /\ merkle_trees["A"][1].version > 1
  /\ lastSyncAt["A"] > 0 /\ lastSyncAt["B"] > 0

====
